---- MODULE Spec2Model ----
(***************************************************************************)
(* Publish pipeline of the flipwise-site scripts.                          *)
(*                                                                         *)
(*   scripts/igPublish.js   main(): validate env, probe the original       *)
(*                          image, signed Cloudinary eager upload, probe   *)
(*                          with retry, final probe, page token, IG user   *)
(*                          id, media container, media_publish.            *)
(*   scripts/instagram.mjs  publishToInstagram(): page token, media        *)
(*                          container, waitUntilFinished, media_publish.   *)
(*   probeWithRetry         the retry loop of igPublish.js / fbPublish.js, *)
(*                          also run on its own for every maxRetries.      *)
(*                                                                         *)
(* One action is one synchronous segment of the script: it starts when the *)
(* awaited promise (HTTP response or timer) settles, runs the code up to   *)
(* the next await, and issues the request that await waits for.  The       *)
(* remote services are the environment: their responses are drawn from     *)
(* the response sets below.                                                *)
(***************************************************************************)
EXTENDS Integers, Sequences, FiniteSets, TLC

VARIABLES
    script,         \* which entry point this run executes
    env,            \* process.env as read at module load
    args,           \* arguments of publishToInstagram
    pc,             \* the await the run is suspended at, or "done" / "failed"
    calls,          \* network requests issued so far, in order of issue
    pending,        \* requests issued and not yet answered
    error,          \* the error that escaped, <<kind, detail>>
    originalValid,  \* main: result of the probe of MEDIA_URL
    eagerUrl,       \* main: URL returned by uploadToCloudinaryWithEager
    finalMediaUrl,  \* main: URL handed to createMediaContainer
    i,              \* probeWithRetry: loop index
    maxRetries,     \* probeWithRetry: parameter
    delays,         \* probeWithRetry: delay slept before each probe (microseconds)
    probeResult,    \* probeWithRetry: "none", "true" or "false"
    pageToken,      \* token returned by getPageToken
    igUserId,       \* id returned by getInstagramUserId
    creationId,     \* id of the created media container
    mediaId,        \* id returned by media_publish
    container,      \* platform side: processing state of the container
    atPublish,      \* platform side: container state when media_publish was requested
    pubLog,         \* responses received to media_publish requests
    now,            \* Date.now() in ms
    start,          \* waitUntilFinished: start
    pollLog,        \* waitUntilFinished: status_code of each poll, in order
    pollAt,         \* waitUntilFinished: elapsed ms at the issue of the latest poll
    waitResult,     \* waitUntilFinished: "none", "running", "returned", "error", "timeout"
    lastProbe,      \* the latest HEAD response handed to probeImage and what it returned
    accounts,       \* igPublish.js: the me/accounts response getPageToken received
    createResp,     \* the response the container-creation request received
    uploadReq,      \* the Cloudinary upload request: the signed string and the form
    post,           \* POST_TITLE, POST_EXCERPT, POST_TAGS, POST_URL, as character sequences
    stdout,         \* igPublish.js: the JSON summaries written to standard output
    exitCode,       \* igPublish.js: <<>> while the process runs, then its exit code
    hashtags,       \* buildCaption: const hashtags = normalizeHashtags(POST_TAGS)
    caption,        \* the caption built from post
    clock,          \* new-post.mjs: the time new Date() returns
    postFiles,      \* public/content/posts/<slug>.json: <<>> or the post written, by slug
    indexFile,      \* public/content/index.json: the entries it lists, <<>> when missing
    runs,           \* the invocations of writePost: position, arguments and locals
    history,        \* the calls of writePost so far, in order of call
    overlap,        \* a writePost call was made while another had not returned
    raw,            \* sanitizeContent: its argument
    sanitized,      \* sanitizeContent: <<>>, or the list it returned
    rawPost,        \* safePostShape: its argument
    shaped,         \* safePostShape: <<>>, or what it returned
    src,            \* useImageWithFallback: the src of the latest render
    resolved,       \* useImageWithFallback: the state variable resolved
    loads           \* useImageWithFallback: the load sequences of the effects, oldest first

vars == <<script, env, args, pc, calls, pending, error, originalValid, eagerUrl,
          finalMediaUrl, i, maxRetries, delays, probeResult, pageToken, igUserId,
          creationId, mediaId, container, atPublish, pubLog, now, start, pollLog,
          pollAt, waitResult, lastProbe, accounts, createResp, uploadReq, post,
          hashtags, caption, stdout, exitCode, clock, postFiles, indexFile, runs,
          history, overlap,
          raw, sanitized, rawPost, shaped, src, resolved, loads>>

----------------------------------------------------------------------------
(* Bounds of the model *)

\* largest maxRetries probeWithRetry is run with on its own
MaxRetriesArg == 6
\* latency of a slow status poll, in ms (a fast one takes 0 ms)
SlowPollMs == 100000
\* length of the longest POST_TITLE and POST_EXCERPT a caption is built from
LongFieldLen == 2300
\* number of writePost calls in a behaviour
MaxWrites == 2
\* the latest time the clock reaches
MaxClock == 1
\* the longest content array
MaxItems == 2
\* number of renders with a src of their own
MaxRenders == 3

(* Program constants *)

\* main: probeWithRetry(eagerUrl, 5)
MainMaxRetries == 5
\* probeImage: len > 10000
MinContentLength == 10000
\* waitUntilFinished: timeoutMs = 180000
timeoutMs == 180000
\* waitUntilFinished: pollMs = 3000
pollMs == 3000
\* buildCaption: .slice(0, 2200)
CaptionCap == 2200
\* linkedinPublish.js: .slice(0, 2800)
LinkedInCap == 2800

------------------------------------------------------------(* Sequences *)

Count(seq, x) == Cardinality({k \in DOMAIN seq : seq[k] = x})
Last(seq) == seq[Len(seq)]

(* Strings, as sequences of characters *)

\* the string of n characters c
Rep(c, n) == [k \in 1..n |-> c]

\* the characters \s matches and String.prototype.trim removes
IsSpace(c) == c \in {" ", "\n", "\t"}
\* the characters \w matches, among those the inputs are made of
IsWord(c) ==
    c \in {"a", "b", "e", "f", "i", "l", "n", "o", "p", "u", "R", "Z", "0", "2", "5", "7", "_"}

RECURSIVE trimStart(_)
trimStart(str) ==
    IF str = <<>> THEN <<>>
    ELSE IF IsSpace(Head(str)) THEN trimStart(Tail(str))
    ELSE str

RECURSIVE trimEnd(_)
trimEnd(str) ==
    IF str = <<>> THEN <<>>
    ELSE IF IsSpace(str[Len(str)]) THEN trimEnd(SubSeq(str, 1, Len(str) - 1))
    ELSE str

\* str.trim()
trim(str) == trimEnd(trimStart(str))

\* str.slice(0, n)
slice(str, n) == IF Len(str) <= n THEN str ELSE SubSeq(str, 1, n)

\* chunks.join(sep)
RECURSIVE join(_, _)
join(chunks, sep) ==
    IF chunks = <<>> THEN <<>>
    ELSE IF Len(chunks) = 1 THEN chunks[1]
    ELSE chunks[1] \o sep \o join(Tail(chunks), sep)

\* chunks.filter(Boolean)
filterBoolean(chunks) == SelectSeq(chunks, LAMBDA c : c # <<>>)

\* str.split(/[,\s]+/g).map((t) => t.trim()).filter(Boolean): the maximal runs
\* of characters other than commas and whitespace; cur is the run being read
RECURSIVE splitTags(_, _, _)
splitTags(str, cur, out) ==
    IF str = <<>>
    THEN IF cur = <<>> THEN out ELSE Append(out, cur)
    ELSE IF Head(str) = "," \/ IsSpace(Head(str))
    THEN splitTags(Tail(str), <<>>, IF cur = <<>> THEN out ELSE Append(out, cur))
    ELSE splitTags(Tail(str), Append(cur, Head(str)), out)

\* t.startsWith("#") ? t : `#${t.replace(/[^\w]/g, "")}`
hashtag(t) ==
    IF Head(t) = "#" THEN t ELSE <<"#">> \o SelectSeq(t, IsWord)

\* function normalizeHashtags(s)
normalizeHashtags(str) ==
    IF str = <<>> THEN <<>>
    ELSE LET parts == splitTags(str, <<>>, <<>>) IN
         join([k \in DOMAIN parts |-> hashtag(parts[k])], <<" ">>)

\* buildCaption without the final slice
buildCaption_NoSlice(p) ==
    LET tags == normalizeHashtags(p.tags)
        chunks == filterBoolean(<<trim(p.title), trim(p.excerpt), trim(tags), trim(p.url)>>)
    IN  trim(join(chunks, <<"\n", "\n">>))

\* function buildCaption()
buildCaption(p) ==
    LET tags == normalizeHashtags(p.tags)
        chunks == filterBoolean(<<trim(p.title), trim(p.excerpt), trim(tags), trim(p.url)>>)
    IN  slice(trim(join(chunks, <<"\n", "\n">>)), CaptionCap)

\* linkedinPublish.js: `${POST_TITLE}\n\n${POST_EXCERPT}\n\n${POST_URL}`.trim().slice(0, 2800)
linkedinCaption(p) ==
    slice(trim(p.title \o <<"\n", "\n">> \o p.excerpt \o <<"\n", "\n">> \o p.url),
          LinkedInCap)

----------------
(* Errors *)

NoError == <<"none", "">>
MissingEnv(name) == <<"Missing env", name>>

\* function requireEnv(name, val) { if (!val) throw ... }
requireEnv(name, val) == IF val = "" THEN MissingEnv(name) ELSE NoError

\* a run of consecutive requireEnv calls: the error of the first that throws
RECURSIVE requireEnvAll(_)
requireEnvAll(names) ==
    IF names = <<>> THEN NoError
    ELSE IF requireEnv(Head(names), env[Head(names)]) # NoError
         THEN requireEnv(Head(names), env[Head(names)])
         ELSE requireEnvAll(Tail(names))

----------------------------------------------------------------------------
(* Responses of the remote services *)

\* HEAD response seen by probeImage; throws: fetch rejected; hasLen: the response
\* carries a content-length header, whose number is len
ProbeResponses ==
    {[throws |-> TRUE, ok |-> FALSE, ct |-> "", hasLen |-> FALSE, len |-> 0]} \cup
    [throws : {FALSE}, ok : BOOLEAN, ct : {"", "text/html", "image/jpeg"},
     hasLen : {FALSE}, len : {0}] \cup
    [throws : {FALSE}, ok : BOOLEAN, ct : {"", "text/html", "image/jpeg"},
     hasLen : {TRUE}, len : {0, 500, MinContentLength, MinContentLength + 1, 50000}]

\* ct.includes("image/")
IncludesImage(ct) == ct \in {"image/jpeg"}

\* parseInt(r.headers.get("content-length") || "0", 10)
contentLength(r) == IF r.hasLen THEN r.len ELSE 0

\* probeImage without its try/catch: the rejection of fetch escapes
probeImage_NoCatch(r) ==
    IF r.throws THEN "throw"
    ELSE IF ~r.ok THEN "false"
    ELSE IF IncludesImage(r.ct) /\ contentLength(r) > MinContentLength THEN "true"
    ELSE "false"

\* probeImage with len >= 10000 for len > 10000
probeImage_AtLeast(r) ==
    IF r.throws THEN "false"
    ELSE IF ~r.ok THEN "false"
    ELSE IF IncludesImage(r.ct) /\ contentLength(r) >= MinContentLength THEN "true"
    ELSE "false"

\* async function probeImage(url, attemptNum): "true" and "false" are the values
\* it returns, "throw" an exception leaving it
probeImage(r) ==
    IF r.throws THEN "false"
    ELSE IF ~r.ok THEN "false"
    ELSE IF IncludesImage(r.ct) /\ contentLength(r) > MinContentLength THEN "true"
    ELSE "false"

\* the record of a call of probeImage kept in lastProbe
Probed(r) == <<[resp |-> r, result |-> probeImage(r)]>>

\* Cloudinary upload response: res.ok, shape of json.eager[0], json.public_id
UploadResponses ==
    [ok : BOOLEAN,
     eager : {"absent", "public_id", "secure_clean", "secure_ar", "bare"},
     basePublicId : BOOLEAN]

\* me/accounts response: j.data and its entries
AccountEntries == [id : {"P1", "P2"}, access_token : {"", "tokA", "tokB"}]
AccountsResponses ==
    {[hasData |-> FALSE, data |-> <<>>]} \cup
    {[hasData |-> TRUE, data |-> d] :
        d \in {<<>>} \cup {<<e>> : e \in AccountEntries}
              \cup {<<e, f>> : e \in AccountEntries, f \in AccountEntries}}

\* page lookup response: j.connected_instagram_account.id
IgAccountResponses == {"", "IG1"}

\* /media response: r.ok and j.id
CreateResponses == [ok : BOOLEAN, id : {"", "C1"}]

\* /media_publish response: r.ok, j.id, and whether the error is "media not ready"
PubSuccess == [ok |-> TRUE, id |-> "M1", notReady |-> FALSE]
PubNotReady == [ok |-> FALSE, id |-> "", notReady |-> TRUE]
PubRejected == [ok |-> FALSE, id |-> "", notReady |-> FALSE]
PubNoId == [ok |-> TRUE, id |-> "", notReady |-> FALSE]

\* the platform answers "not ready" while the container is being processed
PublishResponses(c) ==
    IF c = "PROCESSING" THEN {PubNotReady}
    ELSE IF c = "FINISHED" THEN {PubSuccess, PubRejected, PubNoId}
    ELSE {PubRejected}

\* state of a container right after /media created it
CreatedStates(isVideo) == IF isVideo THEN {"PROCESSING"} ELSE {"PROCESSING", "FINISHED"}

\* status_code of a poll; "" is a response without the field (ready images)
StatusResponses(c, isVideo) ==
    {c} \cup (IF ~isVideo /\ c = "FINISHED" THEN {""} ELSE {})

----------------------------------------------------------------------------
(* Request bookkeeping *)

\* the segment that handles the answer to `done` ends by issuing `next`
Issue(done, next) ==
    /\ calls' = Append(calls, next)
    /\ pending' = (pending \ {done}) \cup {next}

\* the segment that handles the answer to `done` issues nothing
Settle(done) ==
    /\ calls' = calls
    /\ pending' = pending \ {done}

\* main().catch: the error escapes, process.exit(1)
Throw(e) ==
    /\ pc' = "failed"
    /\ error' = e
    /\ exitCode' = (IF script = "igPublish" THEN <<1>> ELSE exitCode)
    /\ stdout' = stdout

\* the segment ends without an error and the process goes on
NoThrow ==
    /\ error' = error
    /\ exitCode' = exitCode
    /\ stdout' = stdout

----------------------------------------------------------------------------
(* Initial states *)

Scripts == {"igPublish", "instagram", "probeWithRetry"}
\* the caption builders, run on their own
CaptionScripts == {"buildCaption", "linkedinPublish"}

\* process.env: "" is an unset variable
EnvValues ==
    [PAGE_ID : {"", "P1"}, FB_LONG_USER_TOKEN : {"", "usertok"},
     MEDIA_URL : {"", "orig"}, IS_VIDEO : BOOLEAN,
     CLOUDINARY_CLOUD_NAME : {"", "flipwise"}, CLOUDINARY_API_KEY : {"", "key"},
     CLOUDINARY_API_SECRET : {"", "secret"}, IG_USER_ID : {"", "IG1"}]

FullEnv ==
    [PAGE_ID |-> "P1", FB_LONG_USER_TOKEN |-> "usertok", MEDIA_URL |-> "orig",
     IS_VIDEO |-> FALSE, CLOUDINARY_CLOUD_NAME |-> "flipwise",
     CLOUDINARY_API_KEY |-> "key", CLOUDINARY_API_SECRET |-> "secret",
     IG_USER_ID |-> "IG1"]

\* arguments of publishToInstagram({ imageUrl, caption, isVideo, videoUrl })
ArgValues == [imageUrl : {"", "img"}, videoUrl : {"", "vid"}, isVideo : BOOLEAN]
NoArgs == [imageUrl |-> "", videoUrl |-> "", isVideo |-> FALSE]

\* no POST_* variable is set
NoPost == [title |-> <<>>, excerpt |-> <<>>, tags |-> <<>>, url |-> <<>>]

\* values of POST_TITLE, POST_EXCERPT, POST_TAGS and POST_URL
PostValues ==
    [title : {<<>>, <<" ">>, <<"a">>, <<" ", "a", " ">>, Rep("a", CaptionCap - 2),
              Rep("a", LongFieldLen)},
     excerpt : {<<>>, <<"\n">>, <<"b">>, <<"b", " ", "b", "\n">>, Rep("b", LongFieldLen)},
     tags : {<<>>, <<",", " ">>, <<"a", ",", "#", "Z", "!", " ", "b", "-", "7">>,
             <<"f", "l", "i", "p", ",", " ", "R", "e", "n", "o", " ", "#", "2", "0", "2", "5">>,
             <<"!", "\n", "_", "-">>},
     url : {<<>>, <<"u">>}]

\* the slugs posts are written under
Slugs == {"a", "b"}
\* the concurrent invocations of writePost
Runs == {1, 2}
\* a parameter that is not passed, a field that is not there
NoTime == -1
\* title, excerpt and image of a post
\* the title, excerpt and image of the n-th call of writePost: every call
\* brings a text of its own
Contents(n) == {[title |-> <<"T", n>>, excerpt |-> <<"E", n>>, image |-> <<"I", n>>]}
NoArg ==
    [slug |-> "", title |-> <<>>, excerpt |-> <<>>, image |-> <<>>,
     createdAt |-> NoTime, updatedAt |-> NoTime, date |-> NoTime]
\* an invocation of writePost: pc, its argument, the post it has built and the
\* index it is about to write
IdleRun == [pc |-> "idle", arg |-> NoArg, post |-> NoArg, without |-> <<>>]

\* JavaScript values: undefined, null, strings, numbers, arrays, and objects with
\* an optional type, an optional text (<<>> or <<string>>) and an optional array
\* of items (<<>> or <<the array>>)
Undefined ==
    [kind |-> "undefined", num |-> 0, str |-> <<>>, type |-> "", text |-> <<>>,
     items |-> <<>>]
Null == [Undefined EXCEPT !.kind = "null"]
Str(s) == [Undefined EXCEPT !.kind = "string", !.str = s]
Num(n) == [Undefined EXCEPT !.kind = "number", !.num = n]
Obj(type, text, items) ==
    [Undefined EXCEPT !.kind = "object", !.type = type, !.text = text, !.items = items]

\* "", " ", "Hi", "3) Hi", "1. 2)x", "42", " 7Hi"
Texts ==
    {<<>>, <<" ">>, <<"H", "i">>, <<"3", ")", " ", "H", "i">>,
     <<"1", ".", " ", "2", ")", "x">>, <<"4", "2">>, <<" ", "7", "H", "i">>}

\* the items of a content array
Items ==
    {Null, Undefined, Num(0), Num(42)}
    \cup {Str(t) : t \in Texts}
    \cup {Obj(type, <<t>>, <<>>) :
             type \in {"paragraph", "subheader"},
             t \in {<<" ">>, <<"H", "i">>, <<"3", ")", " ", "H", "i">>}}
    \cup {Obj("", <<t>>, <<>>) : t \in {<<"4", "2">>, <<"1", ".", " ", "2", ")", "x">>}}
    \cup {Obj("paragraph", <<>>, <<>>), Obj("", <<>>, <<>>),
          Obj("quote", <<<<"H", "i">>>>, <<>>), Obj("list", <<<<"H", "i">>>>, <<>>)}
    \cup {Obj("list", <<>>, <<a>>) :
             a \in {<<>>, <<<<"4", "2">>>>, <<<<"1", ".", " ", "H", "i">>, <<" ">>>>,
                    <<<<"H", "i">>, <<"3", ")", " ", "H", "i">>>>}}

\* the arrays of at most n items
RECURSIVE Arrays(_)
Arrays(n) ==
    IF n = 0 THEN {<<>>}
    ELSE Arrays(n - 1) \cup {Append(a, b) : a \in {x \in Arrays(n - 1) : Len(x) = n - 1},
                                           b \in Items}

\* the arguments of sanitizeContent: arrays, and two values that are none
Raws ==
    {[isArray |-> TRUE, items |-> a] : a \in Arrays(MaxItems)}
    \cup {[isArray |-> FALSE, items |-> <<>>]}
NoRaw == [isArray |-> FALSE, items |-> <<>>]

\* the arguments of safePostShape: values that are no objects, an array, and
\* objects with a title, a slug, a content and one value for date, image and
\* excerpt
NoRawPost ==
    [kind |-> "undefined", title |-> Undefined, slug |-> Undefined, rest |-> Undefined,
     content |-> NoRaw]
RawPosts ==
    {[NoRawPost EXCEPT !.kind = k] : k \in {"undefined", "null", "string", "number", "array"}}
    \cup {[kind |-> "object", title |-> t, slug |-> g, rest |-> d, content |-> c] :
             t \in {Undefined, Str(<<>>), Str(<<" ">>), Str(<<"H", "i">>), Num(42)},
             g \in {Undefined, Str(<<" ">>), Str(<<"a">>)},
             d \in {Undefined, Str(<<"H", "i">>)},
             c \in {r \in Raws : Len(r.items) < MaxItems}}

BlankShape ==
    /\ raw = NoRaw
    /\ sanitized = <<>>
    /\ rawPost = NoRawPost
    /\ shaped = <<>>

BlankHook ==
    /\ src = Undefined
    /\ resolved = <<>>
    /\ loads = <<>>

\* nothing has run yet
Blank ==
    /\ pc = "start"
    /\ calls = <<>>
    /\ pending = {}
    /\ error = NoError
    /\ originalValid = FALSE
    /\ eagerUrl = ""
    /\ finalMediaUrl = ""
    /\ i = 0
    /\ delays = <<>>
    /\ probeResult = "none"
    /\ pageToken = ""
    /\ igUserId = ""
    /\ creationId = ""
    /\ mediaId = ""
    /\ container = "NO_CONTAINER"
    /\ atPublish = "NO_CONTAINER"
    /\ pubLog = <<>>
    /\ now = 0
    /\ start = 0
    /\ pollLog = <<>>
    /\ pollAt = 0
    /\ waitResult = "none"
    /\ lastProbe = <<>>
    /\ accounts = <<>>
    /\ createResp = <<>>
    /\ uploadReq = <<>>
    /\ hashtags = <<>>
    /\ caption = <<>>
    /\ stdout = <<>>
    /\ exitCode = <<>>
    /\ clock = 0
    /\ postFiles = [s \in Slugs |-> <<>>]
    /\ indexFile = <<>>
    /\ runs = [r \in Runs |-> IdleRun]
    /\ history = <<>>
    /\ overlap = FALSE

Init ==
    /\ script \in Scripts
    /\ \/ /\ script = "igPublish"
          /\ env \in {e \in EnvValues : e.IG_USER_ID = "IG1"}
          /\ args = NoArgs
          /\ post = NoPost
          /\ maxRetries = 0
       \/ /\ script = "instagram"
          /\ env \in {e \in EnvValues :
                        /\ e.MEDIA_URL = "orig" /\ e.IS_VIDEO = FALSE
                        /\ e.CLOUDINARY_CLOUD_NAME = "flipwise"
                        /\ e.CLOUDINARY_API_KEY = "key"
                        /\ e.CLOUDINARY_API_SECRET = "secret"}
          /\ args \in ArgValues
          /\ post = NoPost
          /\ maxRetries = 0
       \/ /\ script = "probeWithRetry"
          /\ env = FullEnv
          /\ args = NoArgs
          /\ post = NoPost
          /\ maxRetries \in 0..MaxRetriesArg
    /\ Blank
    /\ BlankShape
    /\ BlankHook

\* the caption builders take their inputs from POST_TITLE, POST_EXCERPT, POST_TAGS
\* and POST_URL; linkedinPublish.js does not read POST_TAGS
CaptionInit ==
    /\ script \in CaptionScripts
    /\ env = FullEnv
    /\ args = NoArgs
    /\ maxRetries = 0
    /\ \/ script = "buildCaption" /\ post \in PostValues
       \/ script = "linkedinPublish" /\ post \in {p \in PostValues : p.tags = <<>>}
    /\ Blank
    /\ BlankShape
    /\ BlankHook

cfgVars == <<script, env, args>>
mainVars == <<originalValid, eagerUrl, finalMediaUrl>>
probeVars == <<i, maxRetries, delays, probeResult>>
graphVars == <<pageToken, igUserId, creationId, mediaId>>
platVars == <<container, atPublish, pubLog>>
waitVars == <<now, start, pollLog, pollAt, waitResult>>
obsVars == <<lastProbe, accounts, createResp, uploadReq>>
captionVars == <<post, hashtags, caption>>
exitVars == <<stdout, exitCode>>
storeVars == <<clock, postFiles, indexFile, runs, history, overlap>>
shapeVars == <<raw, sanitized, rawPost, shaped>>
hookVars == <<src, resolved, loads>>
siteVars == <<storeVars, shapeVars, hookVars>>

----------------------------------------------------------------------------
(* Captions *)

\* buildCaption() run on its own
BuildCaption_Call ==
    /\ script = "buildCaption"
    /\ pc = "start"
    /\ hashtags' = normalizeHashtags(post.tags)
    /\ caption' = buildCaption(post)
    /\ pc' = "done"
    /\ UNCHANGED <<cfgVars, siteVars, post, obsVars, calls, pending, error, exitVars, mainVars, probeVars,
                   graphVars, platVars, waitVars>>

\* the caption expression of linkedinPublish.js evaluated on its own
LinkedinPublish_Caption ==
    /\ script = "linkedinPublish"
    /\ pc = "start"
    /\ caption' = linkedinCaption(post)
    /\ pc' = "done"
    /\ UNCHANGED <<cfgVars, siteVars, post, hashtags, obsVars, calls, pending, error, exitVars, mainVars, probeVars,
                   graphVars, platVars, waitVars>>

CaptionNext == BuildCaption_Call \/ LinkedinPublish_Caption

CaptionSpec == CaptionInit /\ [][CaptionNext]_vars

----------------------------------------------------------------------------
(* probeWithRetry *)

RECURSIVE Pow(_, _)
Pow(b, n) == IF n = 0 THEN 1 ELSE b * Pow(b, n - 1)

\* const delay = i === 1 ? 0 : 1000 * Math.pow(1.5, i - 2), in microseconds
\* (1000000 * 3^k / 2^k is a whole number for k <= 6)
delay(n) == IF n = 1 THEN 0 ELSE (1000000 * Pow(3, n - 2)) \div Pow(2, n - 2)

\* the loop test with < for <=
loopTest_OffByOne(n, max) == n < max

\* for (let i = 1; i <= maxRetries; i++)
loopTest(n, max) == n <= max

\* the fallback taken without looking at originalValid
AfterProbeWithRetry_AlwaysFallBack(ok, url, done) ==
    /\ finalMediaUrl' = (IF ok THEN url ELSE env.MEDIA_URL)
    /\ pc' = "finalProbe"
    /\ NoThrow
    /\ Issue(done, "finalProbe")

\* main, after `const ok = await probeWithRetry(eagerUrl, 5)`: choose the final
\* URL and issue the final probe
AfterProbeWithRetry(ok, url, done) ==
    IF ok
    THEN /\ finalMediaUrl' = url
         /\ pc' = "finalProbe"
         /\ NoThrow
         /\ Issue(done, "finalProbe")
    ELSE IF ~originalValid
    THEN /\ finalMediaUrl' = finalMediaUrl
         /\ Throw(<<"Both eager URL and original MEDIA_URL failed validation", "">>)
         /\ Settle(done)
    ELSE /\ finalMediaUrl' = env.MEDIA_URL
         /\ pc' = "finalProbe"
         /\ NoThrow
         /\ Issue(done, "finalProbe")

\* probeWithRetry returns `ok` to its caller (main: const ok = await ...)
ProbeReturn(ok, url, done) ==
    IF script = "igPublish"
    THEN /\ probeResult' = (IF ok THEN "true" ELSE "false")
         /\ AfterProbeWithRetry(ok, url, done)
    ELSE /\ probeResult' = (IF ok THEN "true" ELSE "false")
         /\ pc' = "done"
         /\ NoThrow
         /\ finalMediaUrl' = finalMediaUrl
         /\ Settle(done)

\* iteration n of the for loop, up to its first await: the loop test, the delay
\* and either the sleep or the probe; past the loop, return false
ProbeLoop(n, max, url, done) ==
    /\ i' = n
    /\ IF loopTest(n, max)
       THEN /\ delays' = Append(delays, delay(n))
            /\ IF delay(n) > 0
               THEN pc' = "retrySleep" /\ Settle(done)
               ELSE pc' = "retryProbe" /\ Issue(done, "retryProbe")
            /\ UNCHANGED <<error, exitVars, finalMediaUrl, probeResult>>
       ELSE /\ delays' = delays
            /\ ProbeReturn(FALSE, url, done)

\* probeWithRetry(url, maxRetries) run on its own: the first loop iteration
ProbeWithRetry_Call ==
    /\ script = "probeWithRetry"
    /\ pc = "start"
    /\ ProbeLoop(1, maxRetries, eagerUrl, "none")
    /\ UNCHANGED <<cfgVars, siteVars, captionVars, obsVars, originalValid, eagerUrl, maxRetries, graphVars, platVars, waitVars>>

\* the probe of iteration i is answered: return true, or go to iteration i + 1
ProbeWithRetry_OnProbe ==
    /\ pc = "retryProbe"
    /\ \E r \in ProbeResponses :
         /\ lastProbe' = Probed(r)
         /\ IF probeImage(r) = "throw"
            THEN /\ Throw(<<"fetch failed", "">>)
                 /\ Settle("retryProbe")
                 /\ UNCHANGED <<i, delays, probeResult, finalMediaUrl>>
            ELSE IF probeImage(r) = "true"
            THEN /\ ProbeReturn(TRUE, eagerUrl, "retryProbe")
                 /\ UNCHANGED <<i, delays>>
            ELSE ProbeLoop(i + 1, maxRetries, eagerUrl, "retryProbe")
    /\ UNCHANGED <<cfgVars, siteVars, captionVars, accounts, createResp, uploadReq, originalValid, eagerUrl, maxRetries, graphVars, platVars, waitVars>>

\* await sleep(delay) is over: issue the probe of iteration i
ProbeWithRetry_OnSleep ==
    /\ pc = "retrySleep"
    /\ pc' = "retryProbe"
    /\ Issue("none", "retryProbe")
    /\ UNCHANGED <<cfgVars, siteVars, captionVars, obsVars, error, exitVars, mainVars, probeVars, graphVars, platVars, waitVars>>

----------------------------------------------------------------------------
(* scripts/igPublish.js: main *)

\* the token of the first entry of the list, whatever its id
findPageToken_FirstEntry(data, pageId) ==
    IF data = <<>> THEN "" ELSE Head(data).access_token

\* j.data.find((p) => p.id === PAGE_ID)?.access_token, "" when there is none
RECURSIVE findPageToken(_, _)
findPageToken(data, pageId) ==
    IF data = <<>> THEN ""
    ELSE IF Head(data).id = pageId THEN Head(data).access_token
    ELSE findPageToken(Tail(data), pageId)

\* uploadToCloudinaryWithEager: the static URL built from the response, "" when
\* none can be built
staticUrl(r) ==
    IF r.eager = "public_id" THEN "eager_public_id"
    ELSE IF r.eager = "secure_clean" THEN "eager_secure_url"
    ELSE IF r.basePublicId THEN "base_public_id"
    ELSE ""

\* main resolving the page token before it prepares the image
Main_Start_CredentialsFirst ==
    /\ script = "igPublish"
    /\ pc = "start"
    /\ LET e == requireEnvAll(<<"PAGE_ID", "FB_LONG_USER_TOKEN", "MEDIA_URL">>) IN
       IF e # NoError
       THEN /\ Throw(e)
            /\ Settle("none")
            /\ UNCHANGED <<hashtags, caption>>
            /\ finalMediaUrl' = finalMediaUrl
       ELSE /\ finalMediaUrl' = env.MEDIA_URL
            /\ pc' = "getPageToken"
            /\ NoThrow
            /\ hashtags' = normalizeHashtags(post.tags)
            /\ caption' = buildCaption(post)
            /\ Issue("none", "getPageToken")
    /\ UNCHANGED <<cfgVars, siteVars, post, obsVars, originalValid, eagerUrl, probeVars, graphVars, platVars, waitVars>>

\* main taking the image path whatever IS_VIDEO says
Main_Start_VideoOverlay ==
    /\ script = "igPublish"
    /\ pc = "start"
    /\ LET e == requireEnvAll(<<"PAGE_ID", "FB_LONG_USER_TOKEN", "MEDIA_URL">>) IN
       IF e # NoError
       THEN /\ Throw(e)
            /\ Settle("none")
            /\ UNCHANGED <<hashtags, caption>>
            /\ finalMediaUrl' = finalMediaUrl
       ELSE /\ finalMediaUrl' = finalMediaUrl
            /\ pc' = "probeOriginal"
            /\ NoThrow
            /\ hashtags' = normalizeHashtags(post.tags)
            /\ caption' = buildCaption(post)
            /\ Issue("none", "probeOriginal")
    /\ UNCHANGED <<cfgVars, siteVars, post, obsVars, originalValid, eagerUrl, probeVars, graphVars, platVars, waitVars>>

\* requireEnv x3; buildCaption; video: straight to getPageToken; image: probe MEDIA_URL
Main_Start ==
    /\ script = "igPublish"
    /\ pc = "start"
    /\ LET e == requireEnvAll(<<"PAGE_ID", "FB_LONG_USER_TOKEN", "MEDIA_URL">>) IN
       IF e # NoError
       THEN /\ Throw(e)
            /\ Settle("none")
            /\ UNCHANGED <<hashtags, caption>>
            /\ finalMediaUrl' = finalMediaUrl
       ELSE IF env.IS_VIDEO
       THEN /\ finalMediaUrl' = env.MEDIA_URL
            /\ pc' = "getPageToken"
            /\ NoThrow
            /\ hashtags' = normalizeHashtags(post.tags)
            /\ caption' = buildCaption(post)
            /\ Issue("none", "getPageToken")
       ELSE /\ finalMediaUrl' = finalMediaUrl
            /\ pc' = "probeOriginal"
            /\ NoThrow
            /\ hashtags' = normalizeHashtags(post.tags)
            /\ caption' = buildCaption(post)
            /\ Issue("none", "probeOriginal")
    /\ UNCHANGED <<cfgVars, siteVars, post, obsVars, originalValid, eagerUrl, probeVars, graphVars, platVars, waitVars>>

\* uploadToCloudinaryWithEager: the string that is hashed, as its key=value pairs
\* in the order they are written, and the secret appended to them
toSign ==
    [pairs |-> << <<"eager", "ar_1:1,...">>, <<"folder", "social_overlayed">>,
                  <<"format", "jpg">>, <<"timestamp", "now/1000">> >>,
     secret |-> env.CLOUDINARY_API_SECRET]

\* uploadToCloudinaryWithEager: the fields of the form that is posted
form ==
    << <<"file", env.MEDIA_URL>>, <<"api_key", env.CLOUDINARY_API_KEY>>,
       <<"timestamp", "now/1000">>, <<"folder", "social_overlayed">>,
       <<"eager", "ar_1:1,...">>, <<"format", "jpg">>, <<"signature", "sha1(toSign)">>,
       <<"async", "false">> >>

\* originalValid = await probeImage(MEDIA_URL, 0); then uploadToCloudinaryWithEager
\* up to its fetch: requireEnv x3, sign, POST
Main_OnOriginalProbe ==
    /\ script = "igPublish"
    /\ pc = "probeOriginal"
    /\ \E r \in ProbeResponses :
         LET e == requireEnvAll(<<"CLOUDINARY_CLOUD_NAME", "CLOUDINARY_API_KEY",
                                  "CLOUDINARY_API_SECRET">>) IN
         /\ lastProbe' = Probed(r)
         /\ IF probeImage(r) = "throw"
            THEN /\ Throw(<<"fetch failed", "">>)
                 /\ Settle("probeOriginal")
                 /\ UNCHANGED <<originalValid, uploadReq>>
            ELSE /\ originalValid' = (probeImage(r) = "true")
                 /\ IF e # NoError
                    THEN Throw(e) /\ Settle("probeOriginal") /\ UNCHANGED uploadReq
                    ELSE /\ pc' = "upload"
                         /\ NoThrow
                         /\ uploadReq' = <<[toSign |-> toSign, form |-> form]>>
                         /\ Issue("probeOriginal", "upload")
    /\ UNCHANGED <<cfgVars, siteVars, captionVars, accounts, createResp, eagerUrl, finalMediaUrl, probeVars, graphVars, platVars, waitVars>>

\* the upload is answered: build the static URL, enter probeWithRetry(eagerUrl, 5)
Main_OnUpload ==
    /\ script = "igPublish"
    /\ pc = "upload"
    /\ \E r \in UploadResponses :
         IF ~r.ok
         THEN /\ Throw(<<"Cloudinary upload failed", "">>)
              /\ Settle("upload")
              /\ UNCHANGED <<eagerUrl, finalMediaUrl, probeVars>>
         ELSE IF r.eager = "absent"
         THEN /\ Throw(<<"Cloudinary eager transform failed", "">>)
              /\ Settle("upload")
              /\ UNCHANGED <<eagerUrl, finalMediaUrl, probeVars>>
         ELSE IF staticUrl(r) = ""
         THEN /\ Throw(<<"Cannot construct static URL", "">>)
              /\ Settle("upload")
              /\ UNCHANGED <<eagerUrl, finalMediaUrl, probeVars>>
         ELSE /\ eagerUrl' = staticUrl(r)
              /\ maxRetries' = MainMaxRetries
              /\ ProbeLoop(1, MainMaxRetries, staticUrl(r), "upload")
    /\ UNCHANGED <<cfgVars, siteVars, captionVars, obsVars, originalValid, graphVars, platVars, waitVars>>

\* main that goes on to the Graph API whatever the final probe returned
Main_OnFinalProbe_NoCheck ==
    /\ script = "igPublish"
    /\ pc = "finalProbe"
    /\ \E r \in ProbeResponses :
         /\ lastProbe' = Probed(r)
         /\ IF probeImage(r) = "throw"
            THEN Throw(<<"fetch failed", "">>) /\ Settle("finalProbe")
            ELSE /\ pc' = "getPageToken"
                 /\ NoThrow
                 /\ Issue("finalProbe", "getPageToken")
    /\ UNCHANGED <<cfgVars, siteVars, captionVars, accounts, createResp, uploadReq, mainVars, probeVars, graphVars, platVars, waitVars>>

\* finalCheck = await probeImage(finalMediaUrl, 99); then getPageToken's fetch
Main_OnFinalProbe ==
    /\ script = "igPublish"
    /\ pc = "finalProbe"
    /\ \E r \in ProbeResponses :
         /\ lastProbe' = Probed(r)
         /\ IF probeImage(r) = "throw"
            THEN Throw(<<"fetch failed", "">>) /\ Settle("finalProbe")
            ELSE IF probeImage(r) = "false"
            THEN Throw(<<"Final media URL failed validation", finalMediaUrl>>) /\ Settle("finalProbe")
            ELSE /\ pc' = "getPageToken"
                 /\ NoThrow
                 /\ Issue("finalProbe", "getPageToken")
    /\ UNCHANGED <<cfgVars, siteVars, captionVars, accounts, createResp, uploadReq, mainVars, probeVars, graphVars, platVars, waitVars>>

\* me/accounts is answered: getPageToken returns or throws; then getInstagramUserId's fetch
Main_OnPageToken ==
    /\ script = "igPublish"
    /\ pc = "getPageToken"
    /\ \E r \in AccountsResponses :
         /\ accounts' = <<r>>
         /\ IF ~r.hasData
            THEN /\ Throw(<<"me/accounts failed", "">>)
                 /\ Settle("getPageToken")
                 /\ pageToken' = pageToken
            ELSE IF findPageToken(r.data, env.PAGE_ID) = ""
            THEN /\ Throw(<<"PAGE_TOKEN not found", env.PAGE_ID>>)
                 /\ Settle("getPageToken")
                 /\ pageToken' = pageToken
            ELSE /\ pageToken' = findPageToken(r.data, env.PAGE_ID)
                 /\ pc' = "getInstagramUserId"
                 /\ NoThrow
                 /\ Issue("getPageToken", "getInstagramUserId")
    /\ UNCHANGED <<cfgVars, siteVars, captionVars, lastProbe, createResp, uploadReq, mainVars, probeVars, igUserId, creationId, mediaId, platVars, waitVars>>

\* getInstagramUserId asking again when the page has no connected account
Main_OnIgUserId_Retry ==
    /\ script = "igPublish"
    /\ pc = "getInstagramUserId"
    /\ \E r \in IgAccountResponses :
         IF r = "" /\ Count(calls, "getInstagramUserId") < 3
         THEN /\ igUserId' = igUserId
              /\ pc' = "getInstagramUserId"
              /\ NoThrow
              /\ Issue("getInstagramUserId", "getInstagramUserId")
         ELSE IF r = ""
         THEN /\ Throw(<<"connected_instagram_account not found", env.PAGE_ID>>)
              /\ Settle("getInstagramUserId")
              /\ igUserId' = igUserId
         ELSE /\ igUserId' = r
              /\ pc' = "createMediaContainer"
              /\ NoThrow
              /\ Issue("getInstagramUserId", "createMediaContainer")
    /\ UNCHANGED <<cfgVars, siteVars, captionVars, obsVars, mainVars, probeVars, pageToken, creationId, mediaId, platVars, waitVars>>

\* the page lookup is answered: getInstagramUserId returns or throws; then the /media POST
Main_OnIgUserId ==
    /\ script = "igPublish"
    /\ pc = "getInstagramUserId"
    /\ \E r \in IgAccountResponses :
         IF r = ""
         THEN /\ Throw(<<"connected_instagram_account not found", env.PAGE_ID>>)
              /\ Settle("getInstagramUserId")
              /\ igUserId' = igUserId
         ELSE /\ igUserId' = r
              /\ pc' = "createMediaContainer"
              /\ NoThrow
              /\ Issue("getInstagramUserId", "createMediaContainer")
    /\ UNCHANGED <<cfgVars, siteVars, captionVars, obsVars, mainVars, probeVars, pageToken, creationId, mediaId, platVars, waitVars>>

\* /media is answered: createMediaContainer returns or throws; main goes straight
\* on to publishMedia's media_publish POST
Main_OnContainer ==
    /\ script = "igPublish"
    /\ pc = "createMediaContainer"
    /\ \E r \in CreateResponses :
         /\ createResp' = <<r>>
         /\ IF ~r.ok \/ r.id = ""
            THEN /\ Throw(<<"IG create container failed", "">>)
                 /\ Settle("createMediaContainer")
                 /\ UNCHANGED <<creationId, container, atPublish>>
            ELSE /\ creationId' = r.id
                 /\ container' \in CreatedStates(env.IS_VIDEO)
                 /\ atPublish' = container'
                 /\ pc' = "publishMedia"
                 /\ NoThrow
                 /\ Issue("createMediaContainer", "publishMedia")
    /\ UNCHANGED <<cfgVars, siteVars, captionVars, lastProbe, accounts, uploadReq, mainVars, probeVars, pageToken, igUserId, mediaId, pubLog, waitVars>>

\* publishMedia repeating the request after an error response, three times at most
Main_OnPublish_Retry ==
    /\ script = "igPublish"
    /\ pc = "publishMedia"
    /\ \E r \in PublishResponses(container) :
         /\ pubLog' = Append(pubLog, r)
         /\ IF (~r.ok \/ r.id = "") /\ Len(pubLog) < 3
            THEN /\ pc' = "publishMedia"
                 /\ NoThrow
                 /\ mediaId' = mediaId
                 /\ Issue("publishMedia", "publishMedia")
            ELSE IF ~r.ok \/ r.id = ""
            THEN /\ Throw(<<"IG media_publish failed", "">>)
                 /\ mediaId' = mediaId
                 /\ Settle("publishMedia")
            ELSE /\ mediaId' = r.id
                 /\ pc' = "done"
                 /\ NoThrow
                 /\ Settle("publishMedia")
    /\ UNCHANGED <<cfgVars, siteVars, captionVars, obsVars, mainVars, probeVars, pageToken, igUserId, creationId,
                   container, atPublish, waitVars>>

\* publishMedia returning whatever id the response holds, with no test of it
Main_OnPublish_NoCheck ==
    /\ script = "igPublish"
    /\ pc = "publishMedia"
    /\ \E r \in PublishResponses(container) :
         /\ pubLog' = Append(pubLog, r)
         /\ mediaId' = r.id
         /\ pc' = "done"
         /\ error' = error
         /\ stdout' = Append(stdout, [ok |-> TRUE, igMediaId |-> r.id,
                                      finalUrl |-> finalMediaUrl])
         /\ exitCode' = <<0>>
         /\ Settle("publishMedia")
    /\ UNCHANGED <<cfgVars, siteVars, captionVars, obsVars, mainVars, probeVars, pageToken, igUserId, creationId,
                   container, atPublish, waitVars>>

\* media_publish is answered: publishMedia returns the id or throws; on success
\* main prints { ok: true, igMediaId, finalUrl }
Main_OnPublish ==
    /\ script = "igPublish"
    /\ pc = "publishMedia"
    /\ \E r \in PublishResponses(container) :
         /\ pubLog' = Append(pubLog, r)
         /\ IF ~r.ok \/ r.id = ""
            THEN /\ Throw(<<"IG media_publish failed", "">>)
                 /\ mediaId' = mediaId
            ELSE /\ mediaId' = r.id
                 /\ pc' = "done"
                 /\ error' = error
                 /\ stdout' = Append(stdout, [ok |-> TRUE, igMediaId |-> r.id,
                                              finalUrl |-> finalMediaUrl])
                 /\ exitCode' = <<0>>
         /\ Settle("publishMedia")
    /\ UNCHANGED <<cfgVars, siteVars, captionVars, obsVars, mainVars, probeVars, pageToken, igUserId, creationId,
                   container, atPublish, waitVars>>

\* the platform finishes processing the container, or fails to
PlatformProcess ==
    /\ container = "PROCESSING"
    /\ container' \in {"FINISHED", "ERROR"}
    /\ UNCHANGED <<cfgVars, siteVars, captionVars, obsVars, pc, calls, pending, error, exitVars, mainVars, probeVars, graphVars,
                   atPublish, pubLog, waitVars>>

----------------------------------------------------------------------------
(* scripts/instagram.mjs: publishToInstagram and waitUntilFinished *)

\* the loop test with <= for <
withinBudget_Inclusive(elapsed) == elapsed <= timeoutMs

\* while (Date.now() - start < timeoutMs)
withinBudget(elapsed) == elapsed < timeoutMs

\* waitUntilFinished, a poll answered FINISHED while another status was asked for
pollOutcome_ReturnEarly(s) ==
    IF s = "ERROR" THEN "throw" ELSE "return"

\* waitUntilFinished without the ERROR test
pollOutcome_IgnoreError(s) ==
    IF s = "FINISHED" \/ s = "" THEN "return" ELSE "sleep"

\* waitUntilFinished without the `|| !s` test
pollOutcome_StatusRequired(s) ==
    IF s = "FINISHED" THEN "return"
    ELSE IF s = "ERROR" THEN "throw"
    ELSE "sleep"

\* if (s === 'FINISHED' || !s) return true; if (s === 'ERROR') throw ...; await sleep
pollOutcome(s) ==
    IF s = "FINISHED" \/ s = "" THEN "return"
    ELSE IF s = "ERROR" THEN "throw"
    ELSE "sleep"

\* latency of one status poll
PollLatencies == {0, SlowPollMs}

\* requireEnv x3, argument checks, then getPageToken's fetch
PublishToInstagram_Start ==
    /\ script = "instagram"
    /\ pc = "start"
    /\ LET e == requireEnvAll(<<"PAGE_ID", "IG_USER_ID", "FB_LONG_USER_TOKEN">>) IN
       IF e # NoError
       THEN Throw(e) /\ Settle("none")
       ELSE IF args.imageUrl = "" /\ args.videoUrl = ""
       THEN Throw(<<"Provide imageUrl or videoUrl", "">>) /\ Settle("none")
       ELSE IF args.isVideo /\ args.videoUrl = ""
       THEN Throw(<<"isVideo=true requires videoUrl", "">>) /\ Settle("none")
       ELSE /\ pc' = "getPageToken"
            /\ NoThrow
            /\ Issue("none", "getPageToken")
    /\ UNCHANGED <<cfgVars, siteVars, captionVars, obsVars, mainVars, probeVars, graphVars, platVars, waitVars>>

\* me/accounts is answered: getPageToken returns or throws; then the /media POST
PublishToInstagram_OnPageToken ==
    /\ script = "instagram"
    /\ pc = "getPageToken"
    /\ \E r \in AccountsResponses :
         IF ~r.hasData
         THEN /\ Throw(<<"Failed to list pages", "">>)
              /\ Settle("getPageToken")
              /\ pageToken' = pageToken
         ELSE IF findPageToken(r.data, env.PAGE_ID) = ""
         THEN /\ Throw(<<"PAGE_TOKEN not found", env.PAGE_ID>>)
              /\ Settle("getPageToken")
              /\ pageToken' = pageToken
         ELSE /\ pageToken' = findPageToken(r.data, env.PAGE_ID)
              /\ pc' = "createMediaContainer"
              /\ NoThrow
              /\ Issue("getPageToken", "createMediaContainer")
    /\ UNCHANGED <<cfgVars, siteVars, captionVars, obsVars, mainVars, probeVars, igUserId, creationId, mediaId, platVars, waitVars>>

\* /media is answered: throw without an id; else enter waitUntilFinished:
\* start = Date.now(), loop test, first status poll
PublishToInstagram_OnContainer ==
    /\ script = "instagram"
    /\ pc = "createMediaContainer"
    /\ \E r \in CreateResponses :
         /\ createResp' = <<r>>
         /\ IF r.id = ""
            THEN /\ Throw(<<"IG media create failed", "">>)
                 /\ Settle("createMediaContainer")
                 /\ UNCHANGED <<creationId, container, start, pollAt, waitResult>>
            ELSE /\ creationId' = r.id
                 /\ container' \in CreatedStates(args.isVideo)
                 /\ start' = now
                 /\ IF withinBudget(now - now)
                    THEN /\ waitResult' = "running"
                         /\ pollAt' = now - now
                         /\ pc' = "statusPoll"
                         /\ NoThrow
                         /\ Issue("createMediaContainer", "statusPoll")
                    ELSE /\ waitResult' = "timeout"
                         /\ pollAt' = pollAt
                         /\ Throw(<<"Timeout waiting for IG processing.", "">>)
                         /\ Settle("createMediaContainer")
    /\ UNCHANGED <<cfgVars, siteVars, captionVars, lastProbe, accounts, uploadReq, mainVars, probeVars, pageToken, igUserId, mediaId,
                   atPublish, pubLog, now, pollLog>>

\* waitUntilFinished: a status poll is answered with status_code s.
\* FINISHED or no status_code: return true, and publishToInstagram issues
\* media_publish; ERROR: throw; anything else: sleep pollMs
WaitUntilFinished_OnPoll ==
    /\ script = "instagram"
    /\ pc = "statusPoll"
    /\ \E lat \in PollLatencies, s \in StatusResponses(container, args.isVideo) :
         /\ now' = now + lat
         /\ pollLog' = Append(pollLog, s)
         /\ IF pollOutcome(s) = "return"
            THEN /\ waitResult' = "returned"
                 /\ atPublish' = container
                 /\ pc' = "publishMedia"
                 /\ NoThrow
                 /\ Issue("statusPoll", "publishMedia")
            ELSE IF pollOutcome(s) = "throw"
            THEN /\ waitResult' = "error"
                 /\ atPublish' = atPublish
                 /\ Throw(<<"IG processing error", creationId>>)
                 /\ Settle("statusPoll")
            ELSE /\ waitResult' = waitResult
                 /\ atPublish' = atPublish
                 /\ pc' = "pollSleep"
                 /\ NoThrow
                 /\ Settle("statusPoll")
    /\ UNCHANGED <<cfgVars, siteVars, captionVars, obsVars, mainVars, probeVars, graphVars, container, pubLog, start, pollAt>>

\* waitUntilFinished: the pollMs timer fires; the loop test either issues the
\* next poll or leaves the loop into the timeout throw
WaitUntilFinished_OnSleep ==
    /\ script = "instagram"
    /\ pc = "pollSleep"
    /\ now' = now + pollMs
    /\ IF withinBudget(now' - start)
       THEN /\ pollAt' = now' - start
            /\ waitResult' = waitResult
            /\ pc' = "statusPoll"
            /\ NoThrow
            /\ Issue("none", "statusPoll")
       ELSE /\ pollAt' = pollAt
            /\ waitResult' = "timeout"
            /\ Throw(<<"Timeout waiting for IG processing.", "">>)
            /\ Settle("none")
    /\ UNCHANGED <<cfgVars, siteVars, captionVars, obsVars, mainVars, probeVars, graphVars, platVars, start, pollLog>>

\* media_publish is answered: throw without an id, else return the ids
PublishToInstagram_OnPublish ==
    /\ script = "instagram"
    /\ pc = "publishMedia"
    /\ \E r \in PublishResponses(container) :
         /\ pubLog' = Append(pubLog, r)
         /\ IF r.id = ""
            THEN /\ Throw(<<"IG media publish failed", "">>)
                 /\ mediaId' = mediaId
            ELSE /\ mediaId' = r.id
                 /\ pc' = "done"
                 /\ NoThrow
         /\ Settle("publishMedia")
    /\ UNCHANGED <<cfgVars, siteVars, captionVars, obsVars, mainVars, probeVars, pageToken, igUserId, creationId,
                   container, atPublish, waitVars>>

----------------------------------------------------------------------------
(* Specifications *)

\* the steps of the script itself
Run ==
    \/ Main_Start
    \/ Main_OnOriginalProbe
    \/ Main_OnUpload
    \/ ProbeWithRetry_Call
    \/ ProbeWithRetry_OnProbe
    \/ ProbeWithRetry_OnSleep
    \/ Main_OnFinalProbe
    \/ Main_OnPageToken
    \/ Main_OnIgUserId
    \/ Main_OnContainer
    \/ Main_OnPublish
    \/ PublishToInstagram_Start
    \/ PublishToInstagram_OnPageToken
    \/ PublishToInstagram_OnContainer
    \/ WaitUntilFinished_OnPoll
    \/ WaitUntilFinished_OnSleep
    \/ PublishToInstagram_OnPublish

Next == Run \/ PlatformProcess

Spec == Init /\ [][Next]_vars

\* every awaited response arrives and every timer fires: a suspended run resumes
FairSpec == Spec /\ WF_vars(Run)

----------------------------------------------------------------------------
(* scripts/new-post.mjs: writePost, in the version of src/scripts ("new-post.mjs")
   and in the version with createdAt / updatedAt ("part_010") *)

StoreScripts == {"new-post.mjs", "part_010"}

\* times are clock ticks, a day has TicksPerDay of them
TicksPerDay == 2
Times == 0..MaxClock
\* new Date(t).toISOString().slice(0, 10): the day of a time
Day(t) == t \div TicksPerDay
\* the days a caller passes as a date: those of Times and the day after
Days == 0..(Day(MaxClock) + 1)
\* new Date(date).toISOString(), Date.parse(date): the time a day starts at
DayStart(d) == d * TicksPerDay

\* everything but the store
pipeVars ==
    <<cfgVars, pc, calls, pending, error, mainVars, probeVars, graphVars, platVars,
      waitVars, obsVars, captionVars, exitVars>>

StoreInit ==
    /\ script \in StoreScripts
    /\ env = FullEnv
    /\ args = NoArgs
    /\ post = NoPost
    /\ maxRetries = 0
    /\ Blank
    /\ BlankShape
    /\ BlankHook

\* ingest-url that takes the current time whether the post file exists or not
preservedCreatedAt_Now(slug, nowIso) == nowIso

\* ingest-url (part_005): createdAt = prev.createdAt || prev.date || nowIso when
\* the post file of the slug exists, nowIso otherwise
preservedCreatedAt(slug, nowIso) ==
    IF postFiles[slug] = <<>> THEN nowIso
    ELSE IF postFiles[slug][1].createdAt # NoTime THEN postFiles[slug][1].createdAt
    ELSE IF postFiles[slug][1].date # NoTime THEN DayStart(postFiles[slug][1].date)
    ELSE nowIso

\* the arguments writePost is called with at the time nowIso: by its CLI and
\* by ingest-url, which pass the current day (src/scripts) or the current time,
\* ingest-url keeping the createdAt of an existing post file (part_005,
\* part_010); and by a caller that passes a creation time or a legacy date of
\* its own, or no title
CallArgs(nowIso, n) ==
    LET with(slug, c, createdAt, updatedAt, date) ==
            [slug |-> slug, title |-> c.title, excerpt |-> c.excerpt, image |-> c.image,
             createdAt |-> createdAt, updatedAt |-> updatedAt, date |-> date]
    IN  IF script = "new-post.mjs"
        THEN {[mode |-> "cli", arg |-> with(slug, c, NoTime, NoTime, Day(nowIso))] :
                 slug \in Slugs, c \in Contents(n)}
             \cup {[mode |-> "api", arg |-> with(slug, c, NoTime, NoTime, d)] :
                      slug \in Slugs, c \in Contents(n), d \in Days}
        ELSE {[mode |-> "cli", arg |-> with(slug, c, nowIso, nowIso, NoTime)] :
                 slug \in Slugs, c \in Contents(n)}
             \cup {[mode |-> "ingest",
                    arg |-> with(slug, c, preservedCreatedAt(slug, nowIso), nowIso, NoTime)] :
                      slug \in Slugs, c \in Contents(n)}
             \cup {[mode |-> "api", arg |-> with(slug, c, NoTime, NoTime, d)] :
                      slug \in Slugs, c \in Contents(n), d \in Days}
             \cup {[mode |-> "api", arg |-> [NoArg EXCEPT !.slug = slug]] : slug \in Slugs}

\* part_010: const created = createdAt ? ... : (date ? ... : nowIso)
created(a, nowIso) ==
    IF a.createdAt # NoTime THEN a.createdAt
    ELSE IF a.date # NoTime THEN DayStart(a.date)
    ELSE nowIso
\* part_010: const updated = updatedAt ? new Date(updatedAt).toISOString() : nowIso
updated(a, nowIso) == IF a.updatedAt # NoTime THEN a.updatedAt ELSE nowIso
\* part_010: const legacyDate = (date || created.slice(0, 10))
legacyDate(a, nowIso) == IF a.date # NoTime THEN a.date ELSE Day(created(a, nowIso))

\* the post writePost builds from its argument, and the index entry, which has
\* the same fields but the content
postOf(a, nowIso) ==
    IF script = "new-post.mjs"
    THEN [a EXCEPT !.createdAt = NoTime, !.updatedAt = NoTime]
    ELSE [a EXCEPT !.createdAt = created(a, nowIso), !.updatedAt = updated(a, nowIso),
                   !.date = legacyDate(a, nowIso)]

\* part_010: Date.parse(a?.createdAt || a?.date || 0)
sortKey(e) ==
    IF e.createdAt # NoTime THEN e.createdAt
    ELSE IF e.date # NoTime THEN DayStart(e.date)
    ELSE 0

\* e put into a list sorted newest first, behind the entries that are not older
RECURSIVE insertSorted(_, _)
insertSorted(e, sorted) ==
    IF sorted = <<>> THEN <<e>>
    ELSE IF sortKey(Head(sorted)) >= sortKey(e)
    THEN <<Head(sorted)>> \o insertSorted(e, Tail(sorted))
    ELSE <<e>> \o sorted

\* part_010: without.sort((a, b) => tb - ta), a stable sort
RECURSIVE sortNewestFirst(_)
sortNewestFirst(list) ==
    IF list = <<>> THEN <<>>
    ELSE insertSorted(list[Len(list)], sortNewestFirst(SubSeq(list, 1, Len(list) - 1)))

\* the index written without the filter: the old entry of the slug stays
nextIndex_NoFilter(idx, entry) ==
    IF script = "new-post.mjs"
    THEN <<entry>> \o idx
    ELSE sortNewestFirst(Append(idx, entry))

\* the index writePost writes after it has read idx: the entry of the slug
\* removed, the new entry put in front (src/scripts) or appended and the list
\* sorted newest first (part_010)
nextIndex(idx, entry) ==
    IF script = "new-post.mjs"
    THEN <<entry>> \o SelectSeq(idx, LAMBDA p : p.slug # entry.slug)
    ELSE sortNewestFirst(Append(SelectSeq(idx, LAMBDA p : p.slug # entry.slug), entry))

\* writePost is called at a time nowIso that is not before the time of the call
\* before it: part_010 throws without a title; the post is built; await fs.mkdir
WritePost_Call(r) ==
    /\ script \in StoreScripts
    /\ runs[r].pc = "idle"
    /\ \A q \in Runs : q < r => runs[q].pc # "idle"
    /\ Len(history) < MaxWrites
    /\ \E nowIso \in clock..MaxClock : \E c \in CallArgs(nowIso, Len(history) + 1) :
         /\ clock' = nowIso
         /\ history' = Append(history, [mode |-> c.mode, arg |-> c.arg])
         /\ IF script = "part_010" /\ c.arg.title = <<>>
            THEN UNCHANGED <<runs, overlap>>
            ELSE /\ runs' = [runs EXCEPT ![r] = [pc |-> "mkdir", arg |-> c.arg,
                                                post |-> postOf(c.arg, nowIso),
                                                without |-> <<>>]]
                 /\ overlap' = (overlap \/ \E q \in Runs \ {r} : runs[q].pc # "idle")
    /\ UNCHANGED <<pipeVars, shapeVars, hookVars, postFiles, indexFile>>

\* fs.mkdir is done: await fs.writeFile of the post file
WritePost_OnMkdir(r) ==
    /\ runs[r].pc = "mkdir"
    /\ runs' = [runs EXCEPT ![r].pc = "writePostFile"]
    /\ UNCHANGED <<pipeVars, shapeVars, hookVars, clock, postFiles, indexFile, history, overlap>>

\* the post file is written: await fs.readFile of the index
WritePost_OnPostFile(r) ==
    /\ runs[r].pc = "writePostFile"
    /\ postFiles' = [postFiles EXCEPT ![runs[r].arg.slug] = <<runs[r].post>>]
    /\ runs' = [runs EXCEPT ![r].pc = "readIndex"]
    /\ UNCHANGED <<pipeVars, shapeVars, hookVars, clock, indexFile, history, overlap>>

\* the index is read (idx = [] when there is none): filter, add the entry,
\* sort; await fs.writeFile of the index
WritePost_OnIndexRead(r) ==
    /\ runs[r].pc = "readIndex"
    /\ runs' = [runs EXCEPT ![r].pc = "writeIndex",
                            ![r].without = nextIndex(indexFile, runs[r].post)]
    /\ UNCHANGED <<pipeVars, shapeVars, hookVars, clock, postFiles, indexFile, history, overlap>>

\* the index is written: writePost returns
WritePost_OnIndexWritten(r) ==
    /\ runs[r].pc = "writeIndex"
    /\ indexFile' = runs[r].without
    /\ runs' = [runs EXCEPT ![r] = IdleRun]
    /\ UNCHANGED <<pipeVars, shapeVars, hookVars, clock, postFiles, history, overlap>>

StoreNext ==
    \/ \E r \in Runs : WritePost_Call(r)
    \/ \E r \in Runs : WritePost_OnMkdir(r)
    \/ \E r \in Runs : WritePost_OnPostFile(r)
    \/ \E r \in Runs : WritePost_OnIndexRead(r)
    \/ \E r \in Runs : WritePost_OnIndexWritten(r)

StoreSpec == StoreInit /\ [][StoreNext]_vars

----------------------------------------------------------------------------
(* Blog page (part_011): sanitizeContent and safePostShape *)

IsDigit(c) == c \in {"0", "1", "2", "3", "4", "5", "6", "7", "8", "9"}
Digit(d) == <<"0", "1", "2", "3", "4", "5", "6", "7", "8", "9">>[d + 1]
\* String(n) of a natural number
RECURSIVE decimal(_)
decimal(n) == IF n < 10 THEN <<Digit(n)>> ELSE decimal(n \div 10) \o <<Digit(n % 10)>>

\* String(v)
toString(v) ==
    CASE v.kind = "string" -> v.str
      [] v.kind = "number" -> decimal(v.num)
      [] v.kind = "undefined" -> <<"u", "n", "d", "e", "f", "i", "n", "e", "d">>
      [] v.kind = "null" -> <<"n", "u", "l", "l">>
      [] OTHER -> <<"[", "o", "b", "j", "e", "c", "t", " ", "O", "b", "j", "e", "c", "t", "]">>

\* the digits a string begins with
RECURSIVE leadDigits(_)
leadDigits(str) ==
    IF str # <<>> /\ IsDigit(Head(str)) THEN <<Head(str)>> \o leadDigits(Tail(str))
    ELSE <<>>

\* str.replace(/^\s*\d+[\.)]?\s*/, '')
replaceLeadNums(str) ==
    LET a == trimStart(str)
        b == SubSeq(a, Len(leadDigits(a)) + 1, Len(a))
        c == IF b # <<>> /\ Head(b) \in {".", ")"} THEN Tail(b) ELSE b
    IN  IF leadDigits(a) = <<>> THEN str ELSE trimStart(c)

\* const stripLeadNums = (s) => String(s ?? '').replace(...)
stripLeadNums(v) ==
    replaceLeadNums(IF v.kind \in {"undefined", "null"} THEN <<>> ELSE toString(v))

\* typeof v === 'string' && v.trim().length > 0
isNonEmptyString(v) == v.kind = "string" /\ Len(trim(v.str)) > 0

\* !b
falsy(b) ==
    \/ b.kind \in {"undefined", "null"}
    \/ b.kind = "string" /\ b.str = <<>>
    \/ b.kind = "number" /\ b.num = 0

\* b.text
textOf(b) == IF b.text = <<>> THEN Undefined ELSE Str(b.text[1])

\* the blocks sanitizeContent returns, and the null its map returns
Block(type, text, items) == [type |-> type, text |-> text, items |-> items]
NullBlock == Block("null", <<>>, <<>>)

\* the callback of raw.map
toBlock(b) ==
    IF falsy(b) THEN NullBlock
    ELSE IF b.kind = "object" /\ b.type = "list" /\ b.items # <<>>
    THEN Block("list", <<>>,
               SelectSeq([k \in DOMAIN b.items[1] |-> stripLeadNums(Str(b.items[1][k]))],
                         LAMBDA t : isNonEmptyString(Str(t))))
    ELSE IF b.kind = "object" /\ b.type \in {"subheader", "paragraph"}
    THEN Block(b.type, stripLeadNums(textOf(b)), <<>>)
    ELSE IF b.kind = "object" /\ b.text # <<>>
    THEN Block("paragraph", stripLeadNums(textOf(b)), <<>>)
    ELSE Block("paragraph", stripLeadNums(b), <<>>)

\* the callback of filter
keepBlock(o) ==
    IF o.type = "list" THEN Len(o.items) > 0
    ELSE o.type # "null" /\ isNonEmptyString(Str(o.text))

\* sanitizeContent without its filter
sanitizeContent_NoFilter(r) ==
    IF ~r.isArray THEN <<>>
    ELSE [k \in DOMAIN r.items |-> toBlock(r.items[k])]

sanitizeContent(r) ==
    IF ~r.isArray THEN <<>>
    ELSE SelectSeq([k \in DOMAIN r.items |-> toBlock(r.items[k])], keepBlock)

Untitled == <<"U", "n", "t", "i", "t", "l", "e", "d">>
DefaultSlug == <<"p", "o", "s", "t">>
\* what safePostShape returns for no object
NullShape ==
    [isNull |-> TRUE, title |-> <<>>, date |-> <<>>, image |-> <<>>, excerpt |-> <<>>,
     content |-> <<>>, slug |-> <<>>]

\* safePostShape that takes the title and the slug as they come
safePostShape_NoDefaults(p) ==
    IF p.kind # "object" /\ p.kind # "array" THEN NullShape
    ELSE [isNull |-> FALSE,
          title |-> toString(p.title),
          date |-> IF isNonEmptyString(p.rest) THEN p.rest.str ELSE decimal(clock),
          image |-> IF isNonEmptyString(p.rest) THEN p.rest.str ELSE <<>>,
          excerpt |-> IF isNonEmptyString(p.rest) THEN p.rest.str ELSE <<>>,
          content |-> sanitizeContent(p.content),
          slug |-> toString(p.slug)]

\* safePostShape; the date it puts in for a missing one is the time, here as
\* the digits of the clock
safePostShape(p) ==
    IF p.kind # "object" /\ p.kind # "array" THEN NullShape
    ELSE [isNull |-> FALSE,
          title |-> IF isNonEmptyString(p.title) THEN p.title.str ELSE Untitled,
          date |-> IF isNonEmptyString(p.rest) THEN p.rest.str ELSE decimal(clock),
          image |-> IF isNonEmptyString(p.rest) THEN p.rest.str ELSE <<>>,
          excerpt |-> IF isNonEmptyString(p.rest) THEN p.rest.str ELSE <<>>,
          content |-> sanitizeContent(p.content),
          slug |-> IF isNonEmptyString(p.slug) THEN p.slug.str ELSE DefaultSlug]

ShapeScripts == {"sanitizeContent", "safePostShape"}

\* everything but the arguments and results of the two functions
shapeRest ==
    <<cfgVars, pc, calls, pending, error, mainVars, probeVars, graphVars, platVars,
      waitVars, obsVars, captionVars, exitVars, storeVars, hookVars>>

ShapeInit ==
    /\ script \in ShapeScripts
    /\ env = FullEnv
    /\ args = NoArgs
    /\ post = NoPost
    /\ maxRetries = 0
    /\ Blank
    /\ BlankHook
    /\ sanitized = <<>>
    /\ shaped = <<>>
    /\ \/ script = "sanitizeContent" /\ raw \in Raws /\ rawPost = NoRawPost
       \/ script = "safePostShape" /\ raw = NoRaw /\ rawPost \in RawPosts

SanitizeContent_Call ==
    /\ script = "sanitizeContent"
    /\ sanitized = <<>>
    /\ sanitized' = <<sanitizeContent(raw)>>
    /\ UNCHANGED <<shapeRest, raw, rawPost, shaped>>

SafePostShape_Call ==
    /\ script = "safePostShape"
    /\ shaped = <<>>
    /\ shaped' = <<safePostShape(rawPost)>>
    /\ UNCHANGED <<shapeRest, raw, rawPost, sanitized>>

ShapeNext ==
    \/ SanitizeContent_Call
    \/ SafePostShape_Call

ShapeSpec == ShapeInit /\ [][ShapeNext]_vars

----------------------------------------------------------------------------
(* Blog page (part_002, part_009): useImageWithFallback *)

\* the two fallback URLs, each as one character
FALLBACK_CLOUDINARY == <<"C">>
FALLBACK_LOCAL == <<"L">>

\* the values of the src property
Srcs == {Undefined, Str(<<" ">>), Str(<<"A">>), Str(<<"B">>)}

\* [isNonEmptyString(src) ? src : null, FALLBACK_CLOUDINARY, FALLBACK_LOCAL].filter(Boolean)
candidates(s) ==
    (IF isNonEmptyString(s) THEN <<s.str>> ELSE <<>>)
    \o <<FALLBACK_CLOUDINARY, FALLBACK_LOCAL>>

\* the load sequence an effect starts for s: the candidate it is loading, its
\* cancelled flag, how far it is, how its loads ended, whether it called
\* setResolved, and whether it was the latest sequence when its load succeeded
NewLoad(s) ==
    [src |-> s, at |-> 1, cancelled |-> FALSE, state |-> "loading", results |-> <<>>,
     set |-> FALSE, latest |-> FALSE]

hookRest ==
    <<cfgVars, pc, calls, pending, error, mainVars, probeVars, graphVars, platVars,
      waitVars, obsVars, captionVars, exitVars, storeVars, shapeVars>>

\* the first render and its effect
HookInit ==
    /\ script = "useImageWithFallback"
    /\ env = FullEnv
    /\ args = NoArgs
    /\ post = NoPost
    /\ maxRetries = 0
    /\ Blank
    /\ BlankShape
    /\ src \in Srcs
    /\ resolved = (IF isNonEmptyString(src) THEN src.str ELSE FALLBACK_CLOUDINARY)
    /\ loads = <<NewLoad(src)>>

\* a render with another src; the effect of the render before it has run
Render ==
    /\ script = "useImageWithFallback"
    /\ Len(loads) < MaxRenders
    /\ loads[Len(loads)].src = src
    /\ \E s \in Srcs \ {src} : src' = s
    /\ UNCHANGED <<hookRest, resolved, loads>>

\* the effect of the latest render runs, after the cleanup of the effect before
\* it: cancelled = true there, a new load sequence here
Effect ==
    /\ script = "useImageWithFallback"
    /\ loads[Len(loads)].src # src
    /\ loads' = Append([loads EXCEPT ![Len(loads)].cancelled = TRUE], NewLoad(src))
    /\ UNCHANGED <<hookRest, src, resolved>>

\* img.onload that calls setResolved whether the sequence is cancelled or not
Image_OnLoad_NoCancel(k) ==
    /\ script = "useImageWithFallback"
    /\ loads[k].state = "loading"
    /\ resolved' = candidates(loads[k].src)[loads[k].at]
    /\ loads' = [loads EXCEPT ![k].state = "loaded",
                              ![k].results = Append(@, "load"),
                              ![k].set = TRUE,
                              ![k].latest = (k = Len(loads))]
    /\ UNCHANGED <<hookRest, src>>

\* img.onload: the promise resolves, if (!cancelled) setResolved(url); break
Image_OnLoad(k) ==
    /\ script = "useImageWithFallback"
    /\ loads[k].state = "loading"
    /\ resolved' = (IF loads[k].cancelled THEN resolved
                    ELSE candidates(loads[k].src)[loads[k].at])
    /\ loads' = [loads EXCEPT ![k].state = "loaded",
                              ![k].results = Append(@, "load"),
                              ![k].set = ~loads[k].cancelled,
                              ![k].latest = (k = Len(loads))]
    /\ UNCHANGED <<hookRest, src>>

\* img.onerror: the promise rejects, the loop goes on to the next candidate or ends
Image_OnError(k) ==
    /\ script = "useImageWithFallback"
    /\ loads[k].state = "loading"
    /\ loads' = [loads EXCEPT ![k].results = Append(@, "error"),
                              ![k].at = IF @ < Len(candidates(loads[k].src)) THEN @ + 1 ELSE @,
                              ![k].state = IF loads[k].at < Len(candidates(loads[k].src))
                                           THEN "loading" ELSE "exhausted"]
    /\ UNCHANGED <<hookRest, src, resolved>>

HookNext ==
    \/ Render
    \/ Effect
    \/ \E k \in DOMAIN loads : Image_OnLoad(k)
    \/ \E k \in DOMAIN loads : Image_OnError(k)

HookSpec == HookInit /\ [][HookNext]_vars

----------------------------------------------------------------------------
(* Properties *)

\* the variables the header of igPublish.js and its requireEnv calls name as required
RequiredEnv ==
    {"PAGE_ID", "FB_LONG_USER_TOKEN", "MEDIA_URL", "CLOUDINARY_CLOUD_NAME",
     "CLOUDINARY_API_KEY", "CLOUDINARY_API_SECRET"}
MissingRequired == {n \in RequiredEnv : env[n] = ""}

\* C1: an igPublish run with a required variable missing has failed, once it has
\* taken its first step, with the error naming a missing variable and without
\* having issued any network call.
C1_MissingEnvFailsBeforeAnyCall ==
    (script = "igPublish" /\ MissingRequired # {} /\ pc # "start") =>
        /\ pc = "failed"
        /\ error \in {MissingEnv(n) : n \in MissingRequired}
        /\ Len(calls) = 0

\* the order of steps as the claim states it: credentials, account, asset
\* preparation, probing, container, readiness wait, publish
ClaimedRank(c) ==
    CASE c = "getPageToken" -> 1
      [] c = "getInstagramUserId" -> 2
      [] c \in {"probeOriginal", "upload"} -> 3
      [] c \in {"retryProbe", "finalProbe"} -> 4
      [] c = "createMediaContainer" -> 5
      [] c = "statusPoll" -> 6
      [] c = "publishMedia" -> 7
      [] OTHER -> 0

Predecessors(c) ==
    CASE c = "upload" -> {"probeOriginal"}
      [] c = "retryProbe" -> {"upload", "retryProbe"}
      [] c = "finalProbe" -> {"retryProbe"}
      [] c = "getPageToken" -> {"finalProbe"}
      [] c = "getInstagramUserId" -> {"getPageToken"}
      [] c = "createMediaContainer" -> {"getInstagramUserId"}
      [] c = "publishMedia" -> {"createMediaContainer"}
      [] OTHER -> {}

C3_PublishOnlyWhenFinished ==
    "publishMedia" \in {calls[k] : k \in DOMAIN calls} => atPublish = "FINISHED"

\* C4: a "media not ready" answer to one of the first three publish requests
\* does not fail the run (the request is retried).
C4_NotReadyIsRetried ==
    (pubLog # <<>> /\ Last(pubLog).notReady /\ Len(pubLog) <= 3) =>
        pc # "failed"

C6_ReturnsAtThirdPoll ==
    /\ (Len(pollLog) >= 3 /\ pollLog[1] = "PROCESSING" /\ pollLog[2] = "PROCESSING"
            /\ pollLog[3] = "FINISHED") =>
         /\ Len(pollLog) = 3
         /\ Count(calls, "statusPoll") = 3
         /\ waitResult = "returned"
    /\ pollLog \in {<<"PROCESSING">>, <<"PROCESSING", "PROCESSING">>} =>
         waitResult # "returned"

C6_Witness ==
    /\ pollLog = <<"PROCESSING", "PROCESSING", "FINISHED">>
    /\ waitResult = "returned"
    /\ pc = "done"

\* C7: a poll answered ERROR is the last poll: waitUntilFinished has thrown the
\* processing error, the run has failed and no publish request is ever issued.
C7_ErrorStopsPolling ==
    \A k \in DOMAIN pollLog :
        pollLog[k] = "ERROR" =>
            /\ k = Len(pollLog)
            /\ Count(calls, "statusPoll") = k
            /\ waitResult = "error"
            /\ pc = "failed"
            /\ error[1] = "IG processing error"
            /\ Count(calls, "publishMedia") = 0

C7_Witness ==
    /\ Len(pollLog) = 3
    /\ Last(pollLog) = "ERROR"
    /\ pc = "failed"

\* C8: a poll answered without a status_code is the last poll and
\* waitUntilFinished has returned, as for FINISHED: the publish request has been
\* issued and no processing or timeout error was raised.
C8_MissingStatusIsReady ==
    \A k \in DOMAIN pollLog :
        pollLog[k] = "" =>
            /\ k = Len(pollLog)
            /\ waitResult = "returned"
            /\ Count(calls, "publishMedia") = 1
            /\ error[1] \notin {"IG processing error", "Timeout waiting for IG processing."}

C8_Witness ==
    /\ Len(pollLog) = 2
    /\ Last(pollLog) = ""
    /\ waitResult = "returned"

\* C9, the state part: a poll is only issued while less than timeoutMs has
\* elapsed since start, and the timeout error is raised only when timeoutMs has
\* elapsed and every poll reported a status other than FINISHED, ERROR or none
\* (it returns only on FINISHED or no status, and throws the processing error
\* only on ERROR).
C9_Budget ==
    /\ Count(calls, "statusPoll") > 0 => pollAt < timeoutMs
    /\ waitResult = "timeout" =>
         /\ now - start >= timeoutMs
         /\ pc = "failed"
         /\ error[1] = "Timeout waiting for IG processing."
         /\ \A k \in DOMAIN pollLog : pollLog[k] \notin {"FINISHED", "ERROR", ""}
    /\ waitResult = "returned" => Last(pollLog) \in {"FINISHED", ""}
    /\ waitResult = "error" => Last(pollLog) = "ERROR"
    /\ (waitResult = "running" /\ pc = "statusPoll") => now - start < timeoutMs

\* C9: waitUntilFinished terminates (it returns, throws the processing error or
\* throws the timeout error), within the budget rules above.
C9_WaitTerminates ==
    /\ [](C9_Budget)
    /\ [](waitResult = "running" => <>(waitResult \in {"returned", "error", "timeout"}))

C9_Witness ==
    /\ waitResult = "timeout"
    /\ now - start >= timeoutMs
    /\ Len(pollLog) > 3

\* C10: probeWithRetry that returned false has issued exactly maxRetries probes;
\* the first probe has delay 0 and each later delay is greater than the one before.
C10_ExactlyMaxRetriesProbes ==
    /\ probeResult = "false" =>
         /\ Count(calls, "retryProbe") = maxRetries
         /\ Len(delays) = maxRetries
    /\ delays # <<>> => delays[1] = 0
    /\ \A k \in DOMAIN delays : k > 1 => delays[k] > delays[k - 1]

C10_Witness ==
    /\ script = "probeWithRetry"
    /\ probeResult = "false"
    /\ maxRetries >= 3
    /\ Len(delays) = maxRetries

\* C11: probeImage and probeWithRetry never raise. No run ends with the exception
\* of a HEAD request; probeWithRetry run on its own never fails; a rejected,
\* non-success, non-image or too small response makes probeImage return false;
\* and probeWithRetry whose probes are used up returns false.
C11_ProbesNeverRaise ==
    /\ error[1] # "fetch failed"
    /\ script = "probeWithRetry" => pc # "failed" /\ error = NoError
    /\ lastProbe # <<>> =>
         /\ lastProbe[1].result \in {"true", "false"}
         /\ (\/ lastProbe[1].resp.throws
             \/ ~lastProbe[1].resp.ok
             \/ lastProbe[1].resp.ct # "image/jpeg"
             \/ ~lastProbe[1].resp.hasLen
             \/ lastProbe[1].resp.len <= 10000) => lastProbe[1].result = "false"
    /\ (/\ script = "probeWithRetry"
        /\ pc = "done"
        /\ (lastProbe = <<>> \/ lastProbe[1].result # "true")) => probeResult = "false"

C11_Witness ==
    /\ script = "probeWithRetry"
    /\ pc = "done"
    /\ maxRetries >= 2
    /\ Count(calls, "retryProbe") = maxRetries
    /\ lastProbe # <<>>
    /\ lastProbe[1].resp.throws
    /\ probeResult = "false"

\* C12: probeImage returns true exactly when the HEAD response has a success
\* status, a content type containing "image/" and a content length above 10000,
\* an absent content-length counting as 0: a 200 image/jpeg response of 50000
\* bytes is valid, a non-success one is not, one of exactly 10000 bytes is not.
C12_ProbeValidity ==
    lastProbe # <<>> =>
        LET r == lastProbe[1].resp
            valid == lastProbe[1].result = "true"
            len == IF r.hasLen THEN r.len ELSE 0
        IN  /\ valid <=> (~r.throws /\ r.ok /\ r.ct = "image/jpeg" /\ len > 10000)
            /\ (~r.throws /\ r.ok /\ r.ct = "image/jpeg" /\ r.hasLen /\ r.len = 50000) => valid
            /\ ~r.ok => ~valid
            /\ (r.hasLen /\ r.len = 10000) => ~valid
            /\ ~r.hasLen => ~valid

C12_Witness ==
    /\ lastProbe # <<>>
    /\ lastProbe[1].resp.ok
    /\ lastProbe[1].resp.ct = "image/jpeg"
    /\ lastProbe[1].resp.hasLen
    /\ lastProbe[1].resp.len = 10000
    /\ lastProbe[1].result = "false"
    /\ script = "igPublish"
    /\ ~originalValid
    /\ pc = "upload"

ValidationAborts ==
    {"Both eager URL and original MEDIA_URL failed validation",
     "Final media URL failed validation"}
GraphCalls ==
    {"getPageToken", "getInstagramUserId", "createMediaContainer", "publishMedia"}

\* C13 as claimed: when probeWithRetry has returned false for the overlaid URL the
\* run does not abort on validation; the final URL is the original MEDIA_URL.
C13_FallbackNeverAborts ==
    (script = "igPublish" /\ probeResult = "false") =>
        /\ finalMediaUrl = env.MEDIA_URL
        /\ error[1] \notin ValidationAborts

\* C13: when probeWithRetry has returned false for the overlaid URL, the run
\* falls back to the original MEDIA_URL if the first probe of MEDIA_URL was valid
\* and goes on to the final probe; it reaches the Graph API only with MEDIA_URL
\* as the final URL and after a valid final probe. If the first probe of
\* MEDIA_URL was not valid the run has aborted, with no further request.
C13_FallbackWhenOriginalValid ==
    (script = "igPublish" /\ probeResult = "false") =>
        IF originalValid
        THEN /\ finalMediaUrl = env.MEDIA_URL
             /\ Count(calls, "finalProbe") = 1
             /\ error[1] # "Both eager URL and original MEDIA_URL failed validation"
             /\ error[1] = "Final media URL failed validation" =>
                   /\ pc = "failed"
                   /\ lastProbe[1].result = "false"
                   /\ \A k \in DOMAIN calls : calls[k] \notin GraphCalls
             /\ (\E k \in DOMAIN calls : calls[k] \in GraphCalls) =>
                   lastProbe[1].result = "true"
        ELSE /\ pc = "failed"
             /\ error[1] = "Both eager URL and original MEDIA_URL failed validation"
             /\ Last(calls) = "retryProbe"

C13_Witness ==
    /\ script = "igPublish"
    /\ probeResult = "false"
    /\ originalValid
    /\ finalMediaUrl = env.MEDIA_URL
    /\ Count(calls, "createMediaContainer") = 1
    /\ Count(calls, "publishMedia") = 1
    /\ pc = "done"

\* indices of the entries of the received accounts list whose id is PAGE_ID
Matching == {k \in DOMAIN accounts[1].data : accounts[1].data[k].id = env.PAGE_ID}
FirstMatching == CHOOSE k \in Matching : \A j \in Matching : k <= j

\* C14: once me/accounts is answered with a list, getPageToken has returned the
\* access token of the (first) entry whose id is PAGE_ID if there is one and it
\* has a token, and has raised "PAGE_TOKEN not found" if no entry has that id or
\* that entry has no token; a token it returned is always the token of an entry
\* whose id is PAGE_ID.
C14_PageTokenOfMatchingEntry ==
    (accounts # <<>> /\ accounts[1].hasData) =>
        /\ pageToken # "" =>
              \E k \in Matching : accounts[1].data[k].access_token = pageToken
        /\ IF Matching # {} /\ accounts[1].data[FirstMatching].access_token # ""
           THEN /\ pageToken = accounts[1].data[FirstMatching].access_token
                /\ error[1] # "PAGE_TOKEN not found"
           ELSE /\ pageToken = ""
                /\ pc = "failed"
                /\ error = <<"PAGE_TOKEN not found", env.PAGE_ID>>

C14_Witness ==
    /\ accounts # <<>>
    /\ accounts[1].hasData
    /\ Len(accounts[1].data) = 2
    /\ accounts[1].data[1].id # env.PAGE_ID
    /\ accounts[1].data[1].access_token = "tokB"
    /\ accounts[1].data[2].id = env.PAGE_ID
    /\ pageToken = "tokA"

ResolverErrors ==
    {"me/accounts failed", "Failed to list pages", "PAGE_TOKEN not found",
     "connected_instagram_account not found"}

\* C15: each resolver endpoint is requested at most once in a run; a run in which
\* a resolver did not deliver (no accounts list, no matching entry with a token,
\* no connected Instagram account) has failed with the resolver's error, that
\* resolver's request being its last request and no container-creation, status
\* or publish request having been issued.
C15_ResolverFailureIsFatal ==
    /\ Count(calls, "getPageToken") <= 1
    /\ Count(calls, "getInstagramUserId") <= 1
    /\ (accounts # <<>> /\ pageToken = "") => error[1] \in ResolverErrors
    /\ (/\ script = "igPublish"
        /\ Count(calls, "getInstagramUserId") = 1
        /\ "getInstagramUserId" \notin pending
        /\ igUserId = "") => error[1] = "connected_instagram_account not found"
    /\ error[1] \in ResolverErrors =>
          /\ pc = "failed"
          /\ pending = {}
          /\ Last(calls) \in {"getPageToken", "getInstagramUserId"}
          /\ Count(calls, "createMediaContainer") = 0
          /\ Count(calls, "statusPoll") = 0
          /\ Count(calls, "publishMedia") = 0

C15_Witness ==
    /\ script = "igPublish"
    /\ pc = "failed"
    /\ error[1] = "connected_instagram_account not found"
    /\ pageToken # ""
    /\ Count(calls, "getPageToken") = 1
    /\ Count(calls, "getInstagramUserId") = 1

\* C16 as claimed: a container-creation response with a non-success status or
\* without an id is fatal: the run has failed with the creation error, the
\* creation request was issued once and nothing was requested after it.
C16_CreationFailureIsFatal ==
    /\ Count(calls, "createMediaContainer") <= 1
    /\ (createResp # <<>> /\ (~createResp[1].ok \/ createResp[1].id = "")) =>
          /\ pc = "failed"
          /\ error[1] \in {"IG create container failed", "IG media create failed"}
          /\ Last(calls) = "createMediaContainer"
          /\ Count(calls, "statusPoll") = 0
          /\ Count(calls, "publishMedia") = 0

\* the calls that fetch, transform or probe the image
TransformationCalls == {"probeOriginal", "upload", "retryProbe", "finalProbe"}

\* C17: on the video path (IS_VIDEO true) of igPublish no upload and no probe is
\* ever requested, no overlaid URL exists, and once main is past its checks the
\* final URL, the one container creation is requested with, is MEDIA_URL.
C17_VideoUntransformed ==
    (script = "igPublish" /\ env.IS_VIDEO) =>
        /\ \A k \in DOMAIN calls : calls[k] \notin TransformationCalls
        /\ uploadReq = <<>>
        /\ lastProbe = <<>>
        /\ eagerUrl = ""
        /\ calls # <<>> => finalMediaUrl = env.MEDIA_URL
        /\ Count(calls, "createMediaContainer") > 0 =>
              /\ finalMediaUrl = env.MEDIA_URL
              /\ finalMediaUrl # ""

C17_Witness ==
    /\ script = "igPublish"
    /\ env.IS_VIDEO
    /\ Count(calls, "createMediaContainer") = 1
    /\ finalMediaUrl = "orig"
    /\ pc = "done"

\* the names of the upload parameters in ascending lexicographic order
KeyOrder ==
    <<"api_key", "async", "eager", "file", "folder", "format", "public_id",
      "signature", "timestamp">>
KeyRank(key) == CHOOSE k \in DOMAIN KeyOrder : KeyOrder[k] = key
Range(seq) == {seq[k] : k \in DOMAIN seq}

\* C18 as claimed: the string hashed for an upload consists of exactly the
\* parameters sent in the request other than the file and the signature, each
\* with the value that is sent, in ascending order of their names, followed by
\* the API secret; no other parameter is sent.
C18_SignedExactlyWhatIsSent ==
    uploadReq # <<>> =>
        /\ Range(uploadReq[1].toSign.pairs) =
              {f \in Range(uploadReq[1].form) : f[1] \notin {"file", "signature"}}
        /\ \A j, k \in DOMAIN uploadReq[1].toSign.pairs :
              j < k => KeyRank(uploadReq[1].toSign.pairs[j][1])
                         < KeyRank(uploadReq[1].toSign.pairs[k][1])
        /\ uploadReq[1].toSign.secret = env.CLOUDINARY_API_SECRET

\* C19: the caption buildCaption returns is never longer than 2200 characters,
\* whatever the title, excerpt, tags and url, over-long ones included.
C19_CaptionWithinCap ==
    script # "linkedinPublish" => Len(caption) <= 2200

C19_Witness ==
    /\ script = "buildCaption"
    /\ pc = "done"
    /\ Len(post.title) > 2200
    /\ Len(post.excerpt) > 2200
    /\ post.tags # <<>>
    /\ Len(caption) = 2200

\* the "\n\n"-joined non-empty fields, in the order title, excerpt, hashtags, url
JoinedFields ==
    join(filterBoolean(<<trim(post.title), trim(post.excerpt),
                         trim(normalizeHashtags(post.tags)), trim(post.url)>>),
         <<"\n", "\n">>)

\* C20 as claimed: the caption a script has built is the "\n\n"-joined
\* concatenation of only the non-empty fields in the order title, excerpt,
\* hashtags, url, cut at the cap of the platform: an empty or whitespace-only
\* field contributes neither text nor a separator.
C20_CaptionIsJoinOfNonEmptyFields ==
    /\ (script = "buildCaption" /\ pc = "done") => caption = slice(JoinedFields, 2200)
    /\ (script = "linkedinPublish" /\ pc = "done") => caption = slice(JoinedFields, 2800)

\* the pieces of a string between commas and whitespace, in order
Pieces(str) == splitTags(str, <<>>, <<>>)

\* C21 as claimed: the output of normalizeHashtags has one token for each comma-
\* or whitespace-separated piece of the input, in input order; each token is
\* "#" followed by word characters only, namely those of its piece; and
\* "flip, Reno #2025" yields "#flip #Reno #2025".
C21_HashtagsAreNormalized ==
    (script = "buildCaption" /\ pc = "done") =>
        /\ Len(Pieces(hashtags)) = Len(Pieces(post.tags))
        /\ \A k \in DOMAIN Pieces(hashtags) :
              /\ Head(Pieces(hashtags)[k]) = "#"
              /\ \A n \in 2..Len(Pieces(hashtags)[k]) : IsWord(Pieces(hashtags)[k][n])
              /\ Tail(Pieces(hashtags)[k]) = SelectSeq(Pieces(post.tags)[k], IsWord)
        /\ post.tags = <<"f", "l", "i", "p", ",", " ", "R", "e", "n", "o", " ",
                         "#", "2", "0", "2", "5">> =>
              hashtags = <<"#", "f", "l", "i", "p", " ", "#", "R", "e", "n", "o", " ",
                           "#", "2", "0", "2", "5">>

\* C22: an igPublish run either fully succeeds or fully fails. A summary is
\* written only once, with ok: true and the post id the publish request
\* returned, by a run that raised no error, and the process then ends with exit
\* code 0; a run in which an error escaped a step has ended with exit code 1
\* and has written no summary; there is no other way for the process to end.
C22_SucceedsOrFails ==
    script = "igPublish" =>
        /\ stdout # <<>> =>
              /\ stdout = <<[ok |-> TRUE, igMediaId |-> mediaId, finalUrl |-> finalMediaUrl]>>
              /\ mediaId # ""
              /\ pubLog # <<>> /\ Last(pubLog).ok /\ Last(pubLog).id = mediaId
              /\ Last(calls) = "publishMedia"
              /\ error = NoError
              /\ exitCode = <<0>>
        /\ error # NoError =>
              /\ exitCode = <<1>>
              /\ stdout = <<>>
              /\ pending = {}
        /\ exitCode = <<0>> => stdout # <<>>
        /\ exitCode = <<1>> => error # NoError
        /\ exitCode = <<>> => stdout = <<>> /\ error = NoError

C22_Witness ==
    /\ script = "igPublish"
    /\ exitCode = <<0>>
    /\ stdout = <<[ok |-> TRUE, igMediaId |-> "M1", finalUrl |-> "eager_secure_url"]>>

\* the creation date of an index entry
CreationDate(e) == IF e.createdAt # NoTime THEN e.createdAt ELSE DayStart(e.date)

\* C23 as claimed: whenever the index file has been written, its entries are in
\* non-increasing order of the creation date of their posts.
C23_IndexNewestFirst ==
    \A j, k \in DOMAIN indexFile :
        j < k => CreationDate(indexFile[j]) >= CreationDate(indexFile[k])

\* the calls of writePost for a slug, in their order
CallsFor(slug) == SelectSeq(history, LAMBDA h : h.arg.slug = slug)
\* every call has returned, and none began while another was running
Sequential == ~overlap /\ \A r \in Runs : runs[r].pc = "idle"

\* C26: with the writePost of part_010, once a sequence of ingest runs for a slug,
\* one after the other, is over, the post file of the slug holds the createdAt
\* the first run wrote and the updatedAt of the latest run.
C26_CreatedAtIsPreserved ==
    \A slug \in Slugs :
        (/\ script = "part_010"
         /\ Sequential
         /\ CallsFor(slug) # <<>>
         /\ \A k \in DOMAIN CallsFor(slug) : CallsFor(slug)[k].mode = "ingest")
        => /\ postFiles[slug] # <<>>
           /\ postFiles[slug][1].createdAt = CallsFor(slug)[1].arg.createdAt
           /\ postFiles[slug][1].updatedAt = Last(CallsFor(slug)).arg.updatedAt

\* an article has been ingested a second time, later than the first
C26_Witness ==
    /\ script = "part_010"
    /\ Sequential
    /\ \E slug \in Slugs :
         /\ Len(CallsFor(slug)) >= 2
         /\ \A k \in DOMAIN CallsFor(slug) : CallsFor(slug)[k].mode = "ingest"
         /\ CallsFor(slug)[1].arg.updatedAt < Last(CallsFor(slug)).arg.updatedAt
         /\ postFiles[slug][1].createdAt < postFiles[slug][1].updatedAt

\* the calls of writePost for a slug that wrote: part_010 rejects a call
\* without a title before it writes anything
WritesFor(slug) ==
    SelectSeq(history, LAMBDA h : h.arg.slug = slug
                                  /\ ~(script = "part_010" /\ h.arg.title = <<>>))
\* the positions of the index that hold an entry of the slug
EntriesOf(slug) == {k \in DOMAIN indexFile : indexFile[k].slug = slug}

\* C28: once calls of writePost that follow one another, the first on an empty
\* index, are over, the index holds exactly one entry for every slug written and
\* none for a slug that was not, and the entry of a slug has the title, excerpt
\* and image of the latest write for the slug.
C28_OneEntryPerSlug ==
    Sequential =>
        \A slug \in Slugs :
            IF WritesFor(slug) = <<>>
            THEN EntriesOf(slug) = {}
            ELSE /\ Cardinality(EntriesOf(slug)) = 1
                 /\ \A k \in EntriesOf(slug) :
                      /\ indexFile[k].title = Last(WritesFor(slug)).arg.title
                      /\ indexFile[k].excerpt = Last(WritesFor(slug)).arg.excerpt
                      /\ indexFile[k].image = Last(WritesFor(slug)).arg.image

\* a slug has been written twice, and the other slug not at all
C28_Witness ==
    /\ Sequential
    /\ \E slug \in Slugs :
         /\ Len(WritesFor(slug)) = 2
         /\ WritesFor(slug)[1].arg.title # WritesFor(slug)[2].arg.title
         /\ Len(indexFile) = 1
         /\ indexFile[1].title = WritesFor(slug)[2].arg.title

\* C29 as claimed: when two calls of writePost for different slugs have run
\* at the same time and both have returned, the index holds an entry for
\* both slugs.
C29_NoLostUpdate ==
    (/\ overlap
     /\ \A r \in Runs : runs[r].pc = "idle"
     /\ Len(history) = 2
     /\ \A slug \in Slugs : Len(WritesFor(slug)) = 1)
    => \A slug \in Slugs : EntriesOf(slug) # {}

\* C27: on the image path of igPublish a request to the Graph API, container
\* creation among them, is made only after the final probe of the final media
\* URL has returned valid, and no probe follows it; a run that has aborted
\* because the final probe failed, or because the overlaid and the original URL
\* both failed validation, has made no request to the Graph API.
C27_ContainerOnlyAfterValidProbe ==
    (script = "igPublish" /\ ~env.IS_VIDEO) =>
        /\ (\E k \in DOMAIN calls : calls[k] \in GraphCalls) =>
              /\ Count(calls, "finalProbe") = 1
              /\ lastProbe # <<>>
              /\ lastProbe[1].result = "true"
              /\ finalMediaUrl \in {eagerUrl, env.MEDIA_URL}
              /\ finalMediaUrl # ""
              /\ \A j, k \in DOMAIN calls :
                    (calls[j] \in GraphCalls /\ calls[k] \notin GraphCalls) => k < j
        /\ error[1] \in ValidationAborts =>
              /\ pc = "failed"
              /\ \A k \in DOMAIN calls : calls[k] \notin GraphCalls
        /\ (Count(calls, "finalProbe") = 1 /\ pending = {} /\ lastProbe[1].result = "false") =>
              /\ pc = "failed"
              /\ error[1] = "Final media URL failed validation"

\* an image run has asked for its container, with the overlaid URL
C27_Witness ==
    /\ script = "igPublish"
    /\ ~env.IS_VIDEO
    /\ Count(calls, "createMediaContainer") = 1
    /\ lastProbe[1].result = "true"
    /\ finalMediaUrl = eagerUrl

\* a string has text: some character of it is no white space
HasText(str) == \E k \in DOMAIN str : ~IsSpace(str[k])
\* a number marker: white space, digits, at most one of "." and ")", white space
IsMarker(str) ==
    LET a == trimStart(str)
        b == SubSeq(a, Len(leadDigits(a)) + 1, Len(a))
    IN  /\ leadDigits(a) # <<>>
        /\ \/ trimStart(b) = <<>>
           \/ Head(b) \in {".", ")"} /\ trimStart(Tail(b)) = <<>>
\* the lengths of the markers a string begins with
Markers(str) == {n \in 1..Len(str) : IsMarker(SubSeq(str, 1, n))}
\* out is str without the one number marker it begins with, or str if it
\* begins with none
StrippedOnce(str, out) ==
    IF Markers(str) = {} THEN out = str
    ELSE \E n \in Markers(str) :
            /\ \A m \in Markers(str) : m <= n
            /\ out = SubSeq(str, n + 1, Len(str))
\* the text of an item: its text field if it is an object that has one, itself
\* as a string if it is a primitive
ItemText(b) ==
    IF b.kind = "object" THEN (IF b.text = <<>> THEN <<>> ELSE b.text[1])
    ELSE IF b.kind = "number" THEN decimal(b.num)
    ELSE b.str
\* the positions of the items of a list that have text left once stripped
ListedItems(a) ==
    {k \in DOMAIN a : \E out \in {SubSeq(a[k], n, Len(a[k])) : n \in 1..(Len(a[k]) + 1)} :
                         StrippedOnce(a[k], out) /\ HasText(out)}
IsList(b) == b.kind = "object" /\ b.type = "list" /\ b.items # <<>>
\* an object with neither a type the page knows nor a text field
IsOpaque(b) ==
    b.kind = "object" /\ ~IsList(b) /\ b.type \notin {"paragraph", "subheader"}
    /\ b.text = <<>>
\* the block o is what the item b becomes
BlockOf(o, b) ==
    /\ b.kind \notin {"null", "undefined"}
    /\ IF IsList(b)
       THEN /\ o.type = "list"
            /\ Len(o.items) = Cardinality(ListedItems(b.items[1]))
            /\ Len(o.items) > 0
            /\ \E f \in [DOMAIN o.items -> ListedItems(b.items[1])] :
                  /\ \A j, k \in DOMAIN o.items : j < k => f[j] < f[k]
                  /\ \A k \in DOMAIN o.items : StrippedOnce(b.items[1][f[k]], o.items[k])
       ELSE IF IsOpaque(b)
       THEN o.type = "paragraph" /\ HasText(o.text)
       ELSE /\ o.type = (IF b.kind = "object" /\ b.type = "subheader"
                         THEN "subheader" ELSE "paragraph")
            /\ StrippedOnce(ItemText(b), o.text)
            /\ HasText(o.text)
\* the item b is one that is dropped: null, undefined, or with no text left
Dropped(b) ==
    \/ b.kind \in {"null", "undefined"}
    \/ IsList(b) /\ ListedItems(b.items[1]) = {}
    \/ IsOpaque(b)
    \/ ~IsList(b) /\ \A out \in {SubSeq(ItemText(b), n, Len(ItemText(b))) :
                                     n \in 1..(Len(ItemText(b)) + 1)} :
                        StrippedOnce(ItemText(b), out) => ~HasText(out)

\* C24: sanitizeContent returns blocks of type paragraph, subheader or list
\* only, each with a text that is not empty (a list: with items, none empty);
\* the blocks are, in the order of the items, what the items that are not
\* dropped become: a list stays a list, a paragraph or subheader keeps its type,
\* an object with a text field and a primitive become a paragraph, and the text
\* is that of the item without the one number marker it begins with; the items
\* dropped are null, undefined, or have no text left.
C24_SanitizedBlocks ==
    (script = "sanitizeContent" /\ sanitized # <<>>) =>
        LET out == sanitized[1] IN
        /\ \A k \in DOMAIN out :
              /\ out[k].type \in {"paragraph", "subheader", "list"}
              /\ IF out[k].type = "list"
                 THEN out[k].items # <<>> /\ \A j \in DOMAIN out[k].items : HasText(out[k].items[j])
                 ELSE HasText(out[k].text)
        /\ ~raw.isArray => out = <<>>
        /\ \E f \in [DOMAIN out -> DOMAIN raw.items] :
              /\ \A j, k \in DOMAIN out : j < k => f[j] < f[k]
              /\ \A k \in DOMAIN out : BlockOf(out[k], raw.items[f[k]])
              /\ \A j \in DOMAIN raw.items :
                    (\A k \in DOMAIN out : f[k] # j) => Dropped(raw.items[j])

\* of two items the first was dropped and the second became a paragraph
\* without its number marker
C24_Witness ==
    /\ script = "sanitizeContent"
    /\ sanitized # <<>>
    /\ Len(raw.items) = 2
    /\ raw.items[1] = Num(42)
    /\ raw.items[2] = Str(<<"3", ")", " ", "H", "i">>)
    /\ sanitized[1] = <<Block("paragraph", <<"H", "i">>, <<>>)>>

\* a field of a post is empty: it is no string, or a string without text
IsEmptyField(v) == v.kind # "string" \/ ~HasText(v.str)

\* C25: safePostShape returns null for null and for every value that is no
\* object; for an object it returns a post whose title is the title of the
\* object, or 'Untitled' when that is empty, whose slug is the slug of the
\* object, or 'post' when that is empty, and whose content is sanitizeContent of
\* the content of the object.
C25_SafePostShape ==
    (script = "safePostShape" /\ shaped # <<>>) =>
        IF rawPost.kind \notin {"object", "array"}
        THEN shaped[1].isNull
        ELSE /\ ~shaped[1].isNull
             /\ shaped[1].title =
                  (IF IsEmptyField(rawPost.title) THEN Untitled ELSE rawPost.title.str)
             /\ shaped[1].slug =
                  (IF IsEmptyField(rawPost.slug) THEN DefaultSlug ELSE rawPost.slug.str)
             /\ shaped[1].content = sanitizeContent(rawPost.content)

\* a post with an empty title, no slug and one numbered paragraph has been shaped
C25_Witness ==
    /\ script = "safePostShape"
    /\ shaped # <<>>
    /\ rawPost.kind = "object"
    /\ rawPost.title = Str(<<>>)
    /\ rawPost.slug = Undefined
    /\ rawPost.content.items = <<Str(<<"3", ")", " ", "H", "i">>)>>
    /\ shaped[1].title = Untitled
    /\ shaped[1].slug = DefaultSlug
    /\ shaped[1].content = <<Block("paragraph", <<"H", "i">>, <<>>)>>

\* the first candidate of a load sequence whose load succeeded
FirstLoadable(l) ==
    candidates(l.src)[CHOOSE k \in DOMAIN l.results :
                          /\ l.results[k] = "load"
                          /\ \A j \in 1..(k - 1) : l.results[j] = "error"]

\* C30: once the effect of the current src has run and one of its loads has
\* succeeded, resolved is the first candidate of the current src that loaded,
\* whatever the earlier values of src were and whenever their loads end; and a
\* sequence that called setResolved had not been cancelled by a later effect
\* when it did.
C30_ResolvesToFirstLoadable ==
    script = "useImageWithFallback" =>
        /\ (loads[Len(loads)].src = src /\ loads[Len(loads)].state = "loaded") =>
              /\ resolved = FirstLoadable(loads[Len(loads)])
              /\ resolved \in {candidates(src)[k] : k \in DOMAIN candidates(src)}
        /\ \A k \in DOMAIN loads : loads[k].set => loads[k].latest

\* src went from A to B; the load of A succeeded after the change, B failed
\* and the first fallback loaded
C30_Witness ==
    /\ script = "useImageWithFallback"
    /\ Len(loads) = 2
    /\ loads[1].src = Str(<<"A">>)
    /\ src = Str(<<"B">>)
    /\ loads[1].state = "loaded"
    /\ loads[1].results = <<"load">>
    /\ ~loads[1].latest
    /\ loads[2].results = <<"error", "load">>
    /\ resolved = FALLBACK_CLOUDINARY

====
